---- MODULE Spec2Model ----
(***************************************************************************)
(* Model of the resume editor's API layer: the payload validators          *)
(* (utils/validation), the error classifier (utils/errorHandling), the     *)
(* ApiClient request life cycle (services/api/client) and the resume and   *)
(* template services built on it (services/api/resumeApi, templateApi).    *)
(***************************************************************************)
EXTENDS Integers, Sequences, FiniteSets, TLC

VARIABLES
    vIn,        \* validator run: [fn, data] handed to a validator, or the idle marker
    vOut,       \* validator run: outcome of that validator
    cIn,        \* classifier run: the thrown value handed to classifyError
    cOut,       \* classifier run: the ApiError it returned
    op,         \* the service function or client method being called
    payload,    \* the request data of the call
    hasSignal,  \* the caller supplied an AbortSignal
    userAborted,    \* the caller's signal is aborted
    timer,      \* the timeout timer: "unset", "pending", "cleared", "fired"
    timeoutAborted, \* timeoutController.signal is aborted
    combinedAborted,\* the signal handed to fetch is aborted
    elapsed,    \* the configured timeout has elapsed since the call started
    fetchCount, \* number of fetch invocations made by the call
    pc,         \* ApiClient.request: "idle", "fetching", "reading", "resolved", "rejected"
    response,   \* the Response fetch resolved with
    clientResult,   \* what the client promise settled with
    svc,        \* service function: "idle", "awaiting", "resolved", "rejected"
    svcResult,  \* what the service promise settled with
    uIn,        \* utility run: [fn, ...arguments] of the function called, or the idle marker
    uOut,       \* utility run: what the function returned and what it logged
    hPc,        \* healthApi.check: "idle", "fetching", "reading", "done"
    hHasSignal, \* healthApi.check: the caller supplied an AbortSignal
    hUserAborted,   \* healthApi.check: the caller's signal is aborted
    hTimer,     \* healthApi.check: the timeout timer
    hAborted,   \* healthApi.check: the signal handed to fetch is aborted
    hElapsed,   \* healthApi.check: CONNECTION_TIMEOUT has elapsed since the call
    hStatus,    \* healthApi.check: status of the response, 0 before it arrives
    hResult,    \* healthApi.check: "pending", "true", "false" or "rejected"
    templates,  \* useTemplateConfig: the templates argument of the last render
    selectedTemplate,   \* useTemplateConfig: selectedTemplate state
    sectionOrder,       \* useTemplateConfig: sectionOrder state
    order,      \* useTemplateConfig: order state
    lastOp,     \* useTemplateConfig: the operation called last
    ebPc,       \* ErrorBoundary: "unmounted", "mounted", or "failed" once componentDidCatch threw
    ebProps,    \* ErrorBoundary: the componentName and onError props
    ebState,    \* ErrorBoundary: this.state
    ebCaught,   \* ErrorBoundary: the value the child threw last, null before
    ebOnError,  \* ErrorBoundary: the onError calls made for that value
    ebLast,     \* ErrorBoundary: the step taken last
    rdPc,       \* useResumeData: "unmounted" or "mounted"
    rdFallback, \* useResumeData: fallbackResumesRef.current
    rdStrict,   \* useResumeData: rendered under React.StrictMode
    rdRef,      \* useResumeData: currentRequestIdRef.current
    rdState,    \* useResumeData: resumes, templates, isLoading, error, isConnected
    rdLoads,    \* useResumeData: the loads started so far, in the order they started
    tNow,       \* useToast: Date.now(), in milliseconds since the hook was mounted
    tToasts,    \* useToast: the toasts state
    tTimers,    \* useToast: the pending setTimeout callbacks, in the order they were set
    tShown,     \* useToast: number of showToast calls so far
    twMaxTags,  \* TagsWidget: the maxTags prop
    twStart,    \* TagsWidget: the value prop of the first render
    twValue,    \* TagsWidget: the value prop, as the parent feeds onChange back
    twInput,    \* TagsWidget: inputValue state
    twOnChange, \* TagsWidget: the list handed to onChange by the last call, if any
    twLast,     \* TagsWidget: the handler called last, with the value and input it saw
    apLoading,  \* App: isLoading of useResumeData, a load is in flight
    apResumes,  \* App: resumes of useResumeData
    apSelectedId, \* App: selectedResumeId of useResumeSelection
    apKeywords, \* App: keywords of useResumeMetadata
    apResumeName, \* App: resumeName of useResumeMetadata
    apIsEditing, \* App: isEditing state
    apIsSaving, \* App: isSaving state
    apSaveAsNew, \* ResumeEditPage: saveAsNew state
    apSaves     \* App: the handleSubmit calls so far, with what each called and how it ended

vars == <<vIn, vOut, cIn, cOut, op, payload, hasSignal, userAborted, timer,
          timeoutAborted, combinedAborted, elapsed, fetchCount, pc, response,
          clientResult, svc, svcResult, uIn, uOut, hPc, hHasSignal, hUserAborted,
          hTimer, hAborted, hElapsed, hStatus, hResult, templates, selectedTemplate,
          sectionOrder, order, lastOp,
          ebPc, ebProps, ebState, ebCaught, ebOnError, ebLast,
          rdPc, rdFallback, rdStrict, rdRef, rdState, rdLoads,
          tNow, tToasts, tTimers, tShown,
          twMaxTags, twStart, twValue, twInput, twOnChange, twLast,
          apLoading, apResumes, apSelectedId, apKeywords, apResumeName, apIsEditing, apIsSaving, apSaveAsNew, apSaves>>

validatorVars == <<vIn, vOut>>
classifierVars == <<cIn, cOut>>
callVars == <<op, payload, hasSignal, userAborted, timer, timeoutAborted,
              combinedAborted, elapsed, fetchCount, pc, response, clientResult,
              svc, svcResult>>
utilVars == <<uIn, uOut>>

healthVars == <<hPc, hHasSignal, hUserAborted, hTimer, hAborted, hElapsed, hStatus, hResult>>
templateVars == <<templates, selectedTemplate, sectionOrder, order, lastOp>>

boundaryVars == <<ebPc, ebProps, ebState, ebCaught, ebOnError, ebLast>>
resumeDataVars == <<rdPc, rdFallback, rdStrict, rdRef, rdState, rdLoads>>
toastVars == <<tNow, tToasts, tTimers, tShown>>
tagsVars == <<twMaxTags, twStart, twValue, twInput, twOnChange, twLast>>
appVars == <<apLoading, apResumes, apSelectedId, apKeywords, apResumeName, apIsEditing, apIsSaving, apSaveAsNew, apSaves>>

\* the state of the API layer and of useTemplateConfig
apiVars == <<validatorVars, classifierVars, callVars, utilVars, healthVars, templateVars>>
\* the state of the components and of the other hooks
uiVars == <<boundaryVars, resumeDataVars, toastVars, tagsVars, appVars>>

\* the state outside the validators, the classifier and the API call
restVars == <<utilVars, healthVars, templateVars, uiVars>>

(***************************************************************************)
(* JavaScript values, tagged by their runtime kind.                        *)
(***************************************************************************)
Undef == [t |-> "undefined"]
Null == [t |-> "null"]
Str(s) == [t |-> "string", v |-> s]
Num(n) == [t |-> "number", v |-> n]
Bool(b) == [t |-> "boolean", v |-> b]
Arr(s) == [t |-> "array", v |-> s]
Obj(f) == [t |-> "object", v |-> f]
EmptyObj == Obj([k \in {} |-> Undef])
\* the number NaN
NaN == [t |-> "NaN"]

\* obj.key : undefined when the property is absent
Get(o, k) == IF k \in DOMAIN o.v THEN o.v[k] ELSE Undef

\* the object without one property
Without(o, k) == Obj([x \in (DOMAIN o.v) \ {k} |-> o.v[x]])

\* the object with one property replaced or added
With(o, k, val) == Obj([x \in (DOMAIN o.v) \cup {k} |-> IF x = k THEN val ELSE o.v[x]])

TypeOf(x) ==
    CASE x.t = "undefined" -> "undefined"
      [] x.t = "string" -> "string"
      [] x.t \in {"number", "NaN"} -> "number"
      [] x.t = "boolean" -> "boolean"
      [] OTHER -> "object"

(***************************************************************************)
(* String helpers, computed on the characters.                             *)
(***************************************************************************)
Whitespace == {" ", "\t", "\n"}

RECURSIVE TrimStart(_)
TrimStart(s) ==
    IF Len(s) > 0 /\ SubSeq(s, 1, 1) \in Whitespace
    THEN TrimStart(SubSeq(s, 2, Len(s)))
    ELSE s

RECURSIVE TrimEnd(_)
TrimEnd(s) ==
    IF Len(s) > 0 /\ SubSeq(s, Len(s), Len(s)) \in Whitespace
    THEN TrimEnd(SubSeq(s, 1, Len(s) - 1))
    ELSE s

Trim(s) == TrimEnd(TrimStart(s))

Includes(s, k) ==
    \E i \in 1..(Len(s) - Len(k) + 1) : SubSeq(s, i, i + Len(k) - 1) = k

RECURSIVE Join(_, _)
Join(ss, sep) ==
    IF Len(ss) = 0 THEN ""
    ELSE IF Len(ss) = 1 THEN ss[1]
    ELSE ss[1] \o sep \o Join(Tail(ss), sep)

RECURSIVE Flatten(_)
Flatten(ss) == IF Len(ss) = 0 THEN <<>> ELSE Head(ss) \o Flatten(Tail(ss))

\* `${index}` of a zero-based array index
Idx(i) == ToString(i - 1)

(***************************************************************************)
(* utils/validation                                                        *)
(***************************************************************************)
createValidationError(message) == [type |-> "validation", message |-> message]

isNonEmptyString(value) == value.t = "string" /\ Len(Trim(value.v)) > 0

isObject(value) == value.t = "object"

isArray(value) == value.t = "array"

Result(errors) == [valid |-> Len(errors) = 0, errors |-> errors]

\* errors.push(msg) when cond holds
PushIf(cond, msg) == IF cond THEN <<msg>> ELSE <<>>

StringIfProvided(x) == x.t # "undefined" /\ TypeOf(x) # "string"

\* the two pushes for an optional array-of-strings property
StringArrayErrors(x, path) ==
    IF x.t = "undefined" THEN <<>>
    ELSE IF ~isArray(x) THEN <<path \o " must be an array if provided">>
    ELSE IF ~(\A i \in 1..Len(x.v) : TypeOf(x.v[i]) = "string")
         THEN <<path \o " must contain only strings">>
    ELSE <<>>

validateBasicInfo(basicInfo) ==
    IF ~isObject(basicInfo)
    THEN [valid |-> FALSE, errors |-> <<"basic_info must be an object">>]
    ELSE Result(
        PushIf(~isNonEmptyString(Get(basicInfo, "name")),
               "basic_info.name is required and must be a non-empty string")
     \o PushIf(~isNonEmptyString(Get(basicInfo, "address")),
               "basic_info.address is required and must be a non-empty string")
     \o PushIf(~isNonEmptyString(Get(basicInfo, "email")),
               "basic_info.email is required and must be a non-empty string")
     \o PushIf(TypeOf(Get(basicInfo, "phone")) # "string"
                 /\ TypeOf(Get(basicInfo, "phone")) # "number",
               "basic_info.phone is required and must be a string or number")
     \o PushIf(~isNonEmptyString(Get(basicInfo, "linkedin")),
               "basic_info.linkedin is required and must be a non-empty string")
     \o PushIf(~isNonEmptyString(Get(basicInfo, "github")),
               "basic_info.github is required and must be a non-empty string")
     \o PushIf(StringIfProvided(Get(basicInfo, "homepage")),
               "basic_info.homepage must be a string if provided")
     \o PushIf(StringIfProvided(Get(basicInfo, "summary")),
               "basic_info.summary must be a string if provided"))

validateEducation(education, index) ==
    LET p == "education[" \o Idx(index) \o "]" IN
    IF ~isObject(education)
    THEN [valid |-> FALSE, errors |-> <<p \o " must be an object">>]
    ELSE Result(
        PushIf(~isNonEmptyString(Get(education, "university")),
               p \o ".university is required and must be a non-empty string")
     \o PushIf(~isNonEmptyString(Get(education, "degree")),
               p \o ".degree is required and must be a non-empty string")
     \o PushIf(StringIfProvided(Get(education, "duration")),
               p \o ".duration must be a string if provided")
     \o PushIf(StringIfProvided(Get(education, "location")),
               p \o ".location must be a string if provided")
     \o StringArrayErrors(Get(education, "info"), p \o ".info"))

validateProject(project, index) ==
    LET p == "projects[" \o Idx(index) \o "]" IN
    IF ~isObject(project)
    THEN [valid |-> FALSE, errors |-> <<p \o " must be an object">>]
    ELSE Result(
        PushIf(~isNonEmptyString(Get(project, "title")),
               p \o ".title is required and must be a non-empty string")
     \o PushIf(StringIfProvided(Get(project, "repo")),
               p \o ".repo must be a string if provided")
     \o StringArrayErrors(Get(project, "description"), p \o ".description")
     \o StringArrayErrors(Get(project, "tools"), p \o ".tools"))

validateExperienceProject(expProject, expIndex, projIndex) ==
    LET p == "experiences[" \o Idx(expIndex) \o "].projects[" \o Idx(projIndex) \o "]" IN
    IF ~isObject(expProject)
    THEN [valid |-> FALSE, errors |-> <<p \o " must be an object">>]
    ELSE Result(
        PushIf(StringIfProvided(Get(expProject, "title")),
               p \o ".title must be a string if provided")
     \o StringArrayErrors(Get(expProject, "details"), p \o ".details")
     \o StringArrayErrors(Get(expProject, "tools"), p \o ".tools"))

validateExperience(experience, index) ==
    LET p == "experiences[" \o Idx(index) \o "]"
        projects == Get(experience, "projects")
    IN
    IF ~isObject(experience)
    THEN [valid |-> FALSE, errors |-> <<p \o " must be an object">>]
    ELSE Result(
        PushIf(StringIfProvided(Get(experience, "company")),
               p \o ".company must be a string if provided")
     \o PushIf(StringIfProvided(Get(experience, "duration")),
               p \o ".duration must be a string if provided")
     \o PushIf(StringIfProvided(Get(experience, "location")),
               p \o ".location must be a string if provided")
     \o PushIf(StringIfProvided(Get(experience, "title")),
               p \o ".title must be a string if provided")
     \o (IF projects.t = "undefined" THEN <<>>
         ELSE IF ~isArray(projects)
              THEN <<p \o ".projects must be an array if provided">>
         ELSE Flatten([j \in 1..Len(projects.v) |->
                  validateExperienceProject(projects.v[j], index, j).errors])))

\* the forEach blocks shared by the request and the response validator
EducationErrors(x) ==
    IF x.t = "undefined" THEN <<>>
    ELSE IF ~isArray(x) THEN <<"education must be an array if provided">>
    ELSE Flatten([i \in 1..Len(x.v) |-> validateEducation(x.v[i], i).errors])

ProjectsErrors(x) ==
    IF x.t = "undefined" THEN <<>>
    ELSE IF ~isArray(x) THEN <<"projects must be an array if provided">>
    ELSE Flatten([i \in 1..Len(x.v) |-> validateProject(x.v[i], i).errors])

ExperiencesErrors(x) ==
    IF x.t = "undefined" THEN <<>>
    ELSE IF ~isArray(x) THEN <<"experiences must be an array if provided">>
    ELSE Flatten([i \in 1..Len(x.v) |-> validateExperience(x.v[i], i).errors])

BasicInfoErrors(x) ==
    IF x.t = "undefined" THEN <<>> ELSE validateBasicInfo(x).errors

KeywordsErrors(x) ==
    IF x.t = "undefined" THEN <<>>
    ELSE IF ~isArray(x) THEN <<"keywords must be an array if provided">>
    ELSE IF ~(\A i \in 1..Len(x.v) : TypeOf(x.v[i]) = "string")
         THEN <<"keywords must contain only strings">>
    ELSE <<>>

\* outcome of a function that either returns or throws
Returned == [threw |-> FALSE]
Threw(e) == [threw |-> TRUE, error |-> e]

ResumeDataErrors(data) ==
    PushIf(~isNonEmptyString(Get(data, "name")),
           "name is required and must be a non-empty string")
 \o KeywordsErrors(Get(data, "keywords"))
 \o BasicInfoErrors(Get(data, "basic_info"))
 \o EducationErrors(Get(data, "education"))
 \o ProjectsErrors(Get(data, "projects"))
 \o ExperiencesErrors(Get(data, "experiences"))

\* validateResumeData failing fast: only the first violation is reported
validateResumeData_FailFast(data) ==
    IF ~isObject(data)
    THEN Threw(createValidationError("Resume data must be an object"))
    ELSE IF Len(ResumeDataErrors(data)) > 0
         THEN Threw(createValidationError(
                  "Invalid resume data: " \o Head(ResumeDataErrors(data))))
    ELSE Returned

validateResumeData(data) ==
    IF ~isObject(data)
    THEN Threw(createValidationError("Resume data must be an object"))
    ELSE IF Len(ResumeDataErrors(data)) > 0
         THEN Threw(createValidationError(
                  "Invalid resume data: " \o Join(ResumeDataErrors(data), "; ")))
    ELSE Returned

validateTemplate(template, index) ==
    LET p == "templates[" \o Idx(index) \o "]" IN
    IF ~isObject(template)
    THEN [valid |-> FALSE, errors |-> <<p \o " must be an object">>]
    ELSE Result(
        PushIf(~isNonEmptyString(Get(template, "id")),
               p \o ".id is required and must be a non-empty string")
     \o PushIf(~isNonEmptyString(Get(template, "name")),
               p \o ".name is required and must be a non-empty string"))

\* validateResumeResponse without the nested checks
validateResumeResponse_NestedSkipped(resume) ==
    IF ~isObject(resume)
    THEN [valid |-> FALSE, errors |-> <<"Response must be an object">>]
    ELSE Result(
        PushIf(~isNonEmptyString(Get(resume, "id")) /\ ~isNonEmptyString(Get(resume, "_id")),
               "id or _id is required and must be a non-empty string")
     \o PushIf(~isNonEmptyString(Get(resume, "name")),
               "name is required and must be a non-empty string"))

validateResumeResponse(resume) ==
    IF ~isObject(resume)
    THEN [valid |-> FALSE, errors |-> <<"Response must be an object">>]
    ELSE Result(
        PushIf(~isNonEmptyString(Get(resume, "id")) /\ ~isNonEmptyString(Get(resume, "_id")),
               "id or _id is required and must be a non-empty string")
     \o PushIf(~isNonEmptyString(Get(resume, "name")),
               "name is required and must be a non-empty string")
     \o BasicInfoErrors(Get(resume, "basic_info"))
     \o EducationErrors(Get(resume, "education"))
     \o ProjectsErrors(Get(resume, "projects"))
     \o ExperiencesErrors(Get(resume, "experiences")))

ResponseSchemas == {"resume", "resumeArray", "createResume", "copyResume", "templates"}

\* the errors one schema case accumulates, or the error it throws at once
SchemaCase(resp, schema) ==
    CASE schema = "resume" ->
           [early |-> FALSE, errors |-> validateResumeResponse(resp).errors]
      [] schema = "resumeArray" ->
           IF ~isArray(resp)
           THEN [early |-> TRUE, message |-> "Expected array of resumes"]
           ELSE [early |-> FALSE, errors |->
                   Flatten([i \in 1..Len(resp.v) |->
                      LET result == validateResumeResponse(resp.v[i]) IN
                      PushIf(~result.valid,
                             "Resume at index " \o Idx(i) \o ": "
                                \o Join(result.errors, "; "))])]
      [] schema = "createResume" ->
           IF ~isObject(resp)
           THEN [early |-> TRUE, message |-> "Expected object with id field"]
           ELSE [early |-> FALSE, errors |->
                   PushIf(~isNonEmptyString(Get(resp, "id")),
                          "id is required and must be a non-empty string")]
      [] schema = "copyResume" ->
           IF ~isObject(resp)
           THEN [early |-> TRUE, message |-> "Expected object with resume field"]
           ELSE [early |-> FALSE, errors |->
                   PushIf(TypeOf(Get(resp, "resume")) # "string",
                          "resume field is required and must be a string")]
      [] schema = "templates" ->
           IF ~isObject(resp)
           THEN [early |-> TRUE, message |-> "Expected object with templates array"]
           ELSE [early |-> FALSE, errors |->
                   IF ~isArray(Get(resp, "templates"))
                   THEN <<"templates field is required and must be an array">>
                   ELSE Flatten([i \in 1..Len(Get(resp, "templates").v) |->
                           validateTemplate(Get(resp, "templates").v[i], i).errors])]
      [] OTHER ->
           [early |-> TRUE, message |-> "Unknown schema type: " \o schema]

validateApiResponse(resp, schema) ==
    LET c == SchemaCase(resp, schema) IN
    IF c.early THEN Threw(createValidationError(c.message))
    ELSE IF Len(c.errors) > 0
         THEN Threw(createValidationError(
                  "Invalid API response: " \o Join(c.errors, "; ")))
    ELSE Returned

(***************************************************************************)
(* Thrown values.  cls is the constructor the value is an instance of,    *)
(* name and message are the Error properties ("" when the value has       *)
(* none), status is the value of its status property (Undef when absent). *)
(***************************************************************************)
Thrown(cls, name, message, status) ==
    [cls |-> cls, name |-> name, message |-> message, status |-> status]

AbortError == Thrown("DOMException", "AbortError", "The operation was aborted.", Undef)
TypeErr(message) == Thrown("TypeError", "TypeError", message, Undef)
SyntaxErr(message) == Thrown("SyntaxError", "SyntaxError", message, Undef)
PlainError(message) == Thrown("Error", "Error", message, Undef)
HttpResponse(status) == Thrown("Response", "", "", Num(status))
StatusObject(status) == Thrown("Object", "", "", status)
Primitive == Thrown("Primitive", "", "", Undef)

\* error instanceof Error (DOMException.prototype inherits from Error.prototype)
InstanceOfError(e) == e.cls \in {"Error", "TypeError", "SyntaxError", "DOMException"}

UpperAlpha == "ABCDEFGHIJKLMNOPQRSTUVWXYZ"
LowerAlpha == "abcdefghijklmnopqrstuvwxyz"

LowerChar(c) ==
    IF \E i \in 1..Len(UpperAlpha) : SubSeq(UpperAlpha, i, i) = c
    THEN LET i == CHOOSE j \in 1..Len(UpperAlpha) : SubSeq(UpperAlpha, j, j) = c
         IN SubSeq(LowerAlpha, i, i)
    ELSE c

RECURSIVE toLowerCase(_)
toLowerCase(s) ==
    IF Len(s) = 0 THEN ""
    ELSE LowerChar(SubSeq(s, 1, 1)) \o toLowerCase(SubSeq(s, 2, Len(s)))

(***************************************************************************)
(* utils/errorHandling                                                     *)
(***************************************************************************)
ErrorTypes == {"network", "validation", "server", "unknown"}

\* StatusError with the server threshold off by one
StatusError_OffByOne(statusCode) ==
    IF statusCode > 500
    THEN [type |-> "server", message |-> "Server error occurred", statusCode |-> statusCode]
    ELSE [type |-> "validation", message |-> "Invalid request", statusCode |-> statusCode]

\* the two status thresholds, shared by the Response and the duck-typed branch
StatusError(statusCode) ==
    IF statusCode >= 500
    THEN [type |-> "server", message |-> "Server error occurred", statusCode |-> statusCode]
    ELSE [type |-> "validation", message |-> "Invalid request", statusCode |-> statusCode]

\* classifyError sniffing the message before looking at the status
classifyError_MessageFirst(error) ==
    LET message == toLowerCase(error.message) IN
    IF error.cls = "DOMException" /\ error.name = "AbortError"
    THEN [type |-> "network", message |-> "Request was cancelled", originalError |-> error]
    ELSE IF InstanceOfError(error)
    THEN IF Includes(message, "network") \/ Includes(message, "timeout")
            \/ Includes(message, "econnrefused") \/ Includes(message, "enotfound")
            \/ Includes(message, "connection") \/ Includes(message, "fetch")
         THEN [type |-> "network", message |-> "Unable to connect to server",
               originalError |-> error]
         ELSE IF Includes(message, "validation") \/ Includes(message, "invalid")
                 \/ Includes(message, "required")
         THEN [type |-> "validation", message |-> "Invalid data provided",
               originalError |-> error]
         ELSE [type |-> "unknown", message |-> "An unexpected error occurred",
               originalError |-> error]
    ELSE IF error.cls # "Primitive" /\ error.status.t = "number" /\ error.status.v >= 400
    THEN StatusError(error.status.v)
    ELSE [type |-> "unknown", message |-> "An unexpected error occurred",
          originalError |-> Undef]

classifyError(error) ==
    LET message == toLowerCase(error.message) IN
    IF error.cls = "DOMException" /\ error.name = "AbortError"
    THEN [type |-> "network", message |-> "Request was cancelled", originalError |-> error]
    ELSE IF error.cls = "TypeError"
            /\ (Includes(message, "fetch") \/ Includes(message, "network")
                \/ Includes(message, "failed to fetch"))
    THEN [type |-> "network", message |-> "Unable to connect to server",
          originalError |-> error]
    ELSE IF error.cls = "Response" /\ error.status.v >= 400
    THEN StatusError(error.status.v)
    ELSE IF error.cls # "Primitive" /\ error.status.t = "number" /\ error.status.v >= 400
    THEN StatusError(error.status.v)
    ELSE IF InstanceOfError(error)
    THEN IF Includes(message, "network") \/ Includes(message, "timeout")
            \/ Includes(message, "econnrefused") \/ Includes(message, "enotfound")
            \/ Includes(message, "connection")
         THEN [type |-> "network", message |-> "Unable to connect to server",
               originalError |-> error]
         ELSE IF Includes(message, "validation") \/ Includes(message, "invalid")
                 \/ Includes(message, "required")
         THEN [type |-> "validation", message |-> "Invalid data provided",
               originalError |-> error]
         ELSE [type |-> "unknown", message |-> "An unexpected error occurred",
               originalError |-> error]
    ELSE [type |-> "unknown", message |-> "An unexpected error occurred",
          originalError |-> Undef]

isRetryableError(error) == error.type = "network" \/ error.type = "server"

\* a value of the ApiError shape
IsApiError(x) ==
    /\ DOMAIN x \subseteq {"type", "message", "statusCode", "originalError"}
    /\ {"type", "message"} \subseteq DOMAIN x
    /\ x.type \in ErrorTypes

(***************************************************************************)
(* Payloads the validators are run on.                                     *)
(***************************************************************************)
MaxItems == 2

\* all arrays of at most MaxItems entries drawn from items
ArraysOf(items) == UNION {[1..n -> items] : n \in 0..MaxItems}

ValidBasicInfo ==
    Obj([name |-> Str("Ada"), address |-> Str("1 Main St"), email |-> Str("ada@x.org"),
         phone |-> Num(5551234), linkedin |-> Str("in/ada"), github |-> Str("ada")])
ValidEducation == Obj([university |-> Str("MIT"), degree |-> Str("BSc")])
ValidProject == Obj([title |-> Str("Compiler"), tools |-> Arr(<<Str("C")>>)])
ValidExperience ==
    Obj([company |-> Str("Acme"),
         projects |-> Arr(<<Obj([title |-> Str("Billing"), details |-> Arr(<<Str("did it")>>)])>>)])

NameValues == {Undef, Str(""), Str(" \t"), Str("Resume A")}
KeywordsValues == {Undef, Arr(<<Str("tla"), Str("react")>>), Arr(<<Str("tla"), Num(7)>>), Str("tla")}
BasicInfoValues ==
    {Undef, ValidBasicInfo, Without(ValidBasicInfo, "address"),
     Obj([name |-> Str("Ada"), homepage |-> Num(1)]), Str("Ada")}
EducationItems == {ValidEducation, Without(ValidEducation, "degree")}
EducationValues ==
    {Undef, Str("MIT"), Arr(<<Null>>), Arr(<<EmptyObj, With(ValidEducation, "info", Str("x"))>>)}
    \cup {Arr(a) : a \in ArraysOf(EducationItems)}
ProjectsValues ==
    {Undef, Num(3), Arr(<<ValidProject>>),
     Arr(<<ValidProject, Obj([repo |-> Str("git"), tools |-> Str("C")]), Without(ValidProject, "title")>>)}
ExperiencesValues ==
    {Undef,
     Arr(<<ValidExperience, Obj([company |-> Num(1), projects |-> Arr(<<Obj([title |-> Num(2)]), Str("x")>>)])>>),
     EmptyObj}
IdValues == {<<Undef, Undef>>, <<Str("64af"), Undef>>, <<Undef, Str("17")>>, <<Str(" "), Undef>>}

\* an object literal; properties whose value is undefined are left out
Resume(id, name, keywords, basicInfo, education, projects, experiences) ==
    LET all == [_id |-> id[1], id |-> id[2], name |-> name, keywords |-> keywords,
                basic_info |-> basicInfo, education |-> education,
                projects |-> projects, experiences |-> experiences]
    IN Obj([k \in {x \in DOMAIN all : all[x].t # "undefined"} |-> all[k]])

NonObjects == {Undef, Null, Str("resume"), Num(1), Bool(TRUE), Arr(<<>>)}

NotRun == [fn |-> "none"]

ValidatorInit == vIn = NotRun /\ vOut = Returned

\* validateResumeData(data) on an outgoing payload
RunValidateResumeData ==
    /\ vIn = NotRun
    /\ \E n \in NameValues, k \in KeywordsValues, b \in BasicInfoValues,
          e \in EducationValues, p \in ProjectsValues, x \in ExperiencesValues :
          LET data == Resume(<<Undef, Undef>>, n, k, b, e, p, x) IN
          /\ vIn' = [fn |-> "validateResumeData", data |-> data]
          /\ vOut' = validateResumeData(data)
    /\ UNCHANGED restVars
    /\ UNCHANGED <<classifierVars, callVars>>

\* validateResumeData(data) on something that is no object
RunValidateNonObject ==
    /\ vIn = NotRun
    /\ \E data \in NonObjects :
          /\ vIn' = [fn |-> "validateResumeData", data |-> data]
          /\ vOut' = validateResumeData(data)
    /\ UNCHANGED restVars
    /\ UNCHANGED <<classifierVars, callVars>>

\* validateApiResponse(response, 'resume') on an incoming record
RunValidateResumeResponse ==
    /\ vIn = NotRun
    /\ \E i \in IdValues, n \in {Str(" \t"), Str("Resume A")}, k \in {Undef, Str("tla")},
          b \in BasicInfoValues, e \in EducationValues, p \in ProjectsValues,
          x \in ExperiencesValues :
          LET data == Resume(i, n, k, b, e, p, x) IN
          /\ vIn' = [fn |-> "validateApiResponse", schema |-> "resume", data |-> data]
          /\ vOut' = validateApiResponse(data, "resume")
    /\ UNCHANGED restVars
    /\ UNCHANGED <<classifierVars, callVars>>

ValidatorNext ==
    \/ RunValidateResumeData
    \/ RunValidateNonObject
    \/ RunValidateResumeResponse

(***************************************************************************)
(* Initial values of the parts a specification leaves alone.               *)
(***************************************************************************)
(***************************************************************************)
(* constants/config: getConfigValue                                        *)
(***************************************************************************)
DEFAULT_API_BASE_URL == "http://localhost:8000"
DEFAULT_CONNECTION_TIMEOUT == 5000
DEFAULT_REQUEST_TIMEOUT == 30000

DecimalDigits == "0123456789"

IsDigit(c) == \E i \in 1..Len(DecimalDigits) : SubSeq(DecimalDigits, i, i) = c

DigitValue(c) == (CHOOSE i \in 1..Len(DecimalDigits) : SubSeq(DecimalDigits, i, i) = c) - 1

\* the longest run of decimal digits a string starts with
RECURSIVE DigitPrefix(_)
DigitPrefix(s) ==
    IF Len(s) > 0 /\ IsDigit(SubSeq(s, 1, 1))
    THEN SubSeq(s, 1, 1) \o DigitPrefix(SubSeq(s, 2, Len(s)))
    ELSE ""

RECURSIVE DigitsValue(_, _)
DigitsValue(s, acc) ==
    IF Len(s) = 0 THEN acc
    ELSE DigitsValue(SubSeq(s, 2, Len(s)), 10 * acc + DigitValue(SubSeq(s, 1, 1)))

\* parseInt(value, 10): leading white space is skipped, a sign is read, then
\* the digits up to the first other character; NaN when there is no digit
parseInt(value) ==
    LET stripped == TrimStart(value)
        signed == Len(stripped) > 0 /\ SubSeq(stripped, 1, 1) \in {"-", "+"}
        negative == signed /\ SubSeq(stripped, 1, 1) = "-"
        unsigned == IF signed THEN SubSeq(stripped, 2, Len(stripped)) ELSE stripped
        digits == DigitPrefix(unsigned)
    IN IF Len(digits) = 0 THEN NaN
       ELSE Num(IF negative THEN 0 - DigitsValue(digits, 0) ELSE DigitsValue(digits, 0))

\* `${x}` in a template literal
TemplateString(x) ==
    CASE x.t = "string" -> x.v
      [] x.t = "number" -> ToString(x.v)
      [] x.t = "NaN" -> "NaN"
      [] x.t = "boolean" -> IF x.v THEN "true" ELSE "false"
      [] x.t = "undefined" -> "undefined"
      [] x.t = "null" -> "null"
      [] OTHER -> "[object Object]"

\* the parsers a caller hands to getConfigValue: none, the parseInt lambda of
\* the exported timeouts, and a table lookup that yields undefined on a miss
Parsers == {"none", "parseInt", "lookup"}

LookupTable == [slow |-> DEFAULT_REQUEST_TIMEOUT, fast |-> DEFAULT_CONNECTION_TIMEOUT]

ApplyParser(parser, value) ==
    CASE parser = "parseInt" -> parseInt(value)
      [] parser = "lookup" ->
            IF value \in DOMAIN LookupTable THEN Num(LookupTable[value]) ELSE Undef

\* getConfigValue falling back to the default without a warning
getConfigValue_SilentFallback(envValue, defaultValue, configName, parser) ==
    IF envValue = Undef \/ envValue = Str("")
    THEN [value |-> defaultValue, warnings |-> <<>>]
    ELSE IF parser # "none"
    THEN LET parsed == ApplyParser(parser, envValue.v) IN
         IF parsed = Undef \/ parsed = NaN
         THEN [value |-> defaultValue, warnings |-> <<>>]
         ELSE [value |-> parsed, warnings |-> <<>>]
    ELSE [value |-> envValue, warnings |-> <<>>]

getConfigValue(envValue, defaultValue, configName, parser) ==
    IF envValue = Undef \/ envValue = Str("")
    THEN [value |-> defaultValue,
          warnings |-> <<"Configuration \"" \o configName
                         \o "\" is missing. Using default value: "
                         \o TemplateString(defaultValue)>>]
    ELSE IF parser # "none"
    THEN LET parsed == ApplyParser(parser, envValue.v) IN
         IF parsed = Undef \/ (TypeOf(parsed) = "number" /\ parsed = NaN)
         THEN [value |-> defaultValue,
               warnings |-> <<"Configuration \"" \o configName
                              \o "\" has invalid value \"" \o envValue.v
                              \o "\". Using default value: "
                              \o TemplateString(defaultValue)>>]
         ELSE [value |-> parsed, warnings |-> <<>>]
    ELSE [value |-> envValue, warnings |-> <<>>]

EnvValues ==
    {Undef, Str(""), Str("8000"), Str("12px"), Str(" 42"), Str("-5"), Str("abc"),
     Str("fast"), Str("http://api.example.com")}
DefaultValues ==
    {Str(DEFAULT_API_BASE_URL), Str(""), Num(DEFAULT_CONNECTION_TIMEOUT),
     Num(DEFAULT_REQUEST_TIMEOUT), Bool(FALSE)}
ConfigNames == {"REACT_APP_API_BASE_URL", "REACT_APP_CONNECTION_TIMEOUT", "X"}

NotCalled == [fn |-> "none"]
NoOutput == [value |-> Undef, warnings |-> <<>>]

UtilInit == uIn = NotCalled /\ uOut = NoOutput

\* getConfigValue(envValue, defaultValue, configName)
RunGetConfigValue ==
    /\ uIn = NotCalled
    /\ \E envValue \in EnvValues, defaultValue \in DefaultValues, configName \in ConfigNames :
          /\ uIn' = [fn |-> "getConfigValue", envValue |-> envValue,
                     defaultValue |-> defaultValue, configName |-> configName,
                     parser |-> "none"]
          /\ uOut' = getConfigValue(envValue, defaultValue, configName, "none")
    /\ UNCHANGED <<validatorVars, classifierVars, callVars, healthVars, templateVars, uiVars>>

\* getConfigValue(envValue, defaultValue, configName, parser)
RunGetConfigValueParsed ==
    /\ uIn = NotCalled
    /\ \E envValue \in EnvValues, configName \in ConfigNames, parser \in Parsers \ {"none"},
          defaultValue \in {d \in DefaultValues : TypeOf(d) = "number"} :
          /\ uIn' = [fn |-> "getConfigValue", envValue |-> envValue,
                     defaultValue |-> defaultValue, configName |-> configName,
                     parser |-> parser]
          /\ uOut' = getConfigValue(envValue, defaultValue, configName, parser)
    /\ UNCHANGED <<validatorVars, classifierVars, callVars, healthVars, templateVars, uiVars>>

ConfigNext ==
    \/ RunGetConfigValue
    \/ RunGetConfigValueParsed

(***************************************************************************)
(* utils/errorHandling: calculateRetryDelay, createUserFriendlyMessage     *)
(***************************************************************************)
DEFAULT_RETRY_CONFIG == [maxAttempts |-> 3, baseDelayMs |-> 1000, maxDelayMs |-> 30000]

MathMax(a, b) == IF a >= b THEN a ELSE b
MathMin(a, b) == IF a <= b THEN a ELSE b

\* Math.pow(2, n) for an integer n >= 0
RECURSIVE Pow2(_)
Pow2(n) == IF n <= 0 THEN 1 ELSE 2 * Pow2(n - 1)

\* calculateRetryDelay without the cap at maxDelayMs
calculateRetryDelay_Uncapped(attempt, config) ==
    config.baseDelayMs * Pow2(MathMax(0, attempt))

\* calculateRetryDelay taking the magnitude of a negative attempt
calculateRetryDelay_AbsAttempt(attempt, config) ==
    MathMin(config.baseDelayMs * Pow2(IF attempt < 0 THEN 0 - attempt ELSE attempt),
            config.maxDelayMs)

calculateRetryDelay(attempt, config) ==
    LET safeAttempt == MathMax(0, attempt)
        exponentialDelay == config.baseDelayMs * Pow2(safeAttempt)
    IN MathMin(exponentialDelay, config.maxDelayMs)

MaxAttempt == 6
Attempts == (0 - 2)..MaxAttempt
BaseDelays == {0 - 1000, 0, 100, 1000, 5000}
MaxDelays == {0, 500, 1000, 10000, 30000, 60000}

\* calculateRetryDelay(attempt, config)
RunCalculateRetryDelay ==
    /\ uIn = NotCalled
    /\ \E attempt \in Attempts, baseDelayMs \in BaseDelays, maxDelayMs \in MaxDelays :
          LET config == [maxAttempts |-> 5, baseDelayMs |-> baseDelayMs,
                         maxDelayMs |-> maxDelayMs]
          IN /\ uIn' = [fn |-> "calculateRetryDelay", attempt |-> attempt, config |-> config]
             /\ uOut' = [value |-> Num(calculateRetryDelay(attempt, config)),
                         warnings |-> <<>>]
    /\ UNCHANGED <<validatorVars, classifierVars, callVars, healthVars, templateVars, uiVars>>

\* calculateRetryDelay(attempt) with the default policy
RunCalculateRetryDelayDefault ==
    /\ uIn = NotCalled
    /\ \E attempt \in Attempts :
          /\ uIn' = [fn |-> "calculateRetryDelay", attempt |-> attempt,
                     config |-> DEFAULT_RETRY_CONFIG]
          /\ uOut' = [value |-> Num(calculateRetryDelay(attempt, DEFAULT_RETRY_CONFIG)),
                      warnings |-> <<>>]
    /\ UNCHANGED <<validatorVars, classifierVars, callVars, healthVars, templateVars, uiVars>>

\* createUserFriendlyMessage showing the technical message of an unknown error
createUserFriendlyMessage_EchoesUnknown(error) ==
    CASE error.type = "network" ->
            "Unable to connect to the server. Please check your internet connection and try again."
      [] error.type = "validation" ->
            "The information provided is not valid. Please check your input and try again."
      [] error.type = "server" -> "The server encountered an issue. Please try again later."
      [] OTHER -> "Something went wrong: " \o error.message

createUserFriendlyMessage(error) ==
    CASE error.type = "network" ->
            "Unable to connect to the server. Please check your internet connection and try again."
      [] error.type = "validation" ->
            "The information provided is not valid. Please check your input and try again."
      [] error.type = "server" -> "The server encountered an issue. Please try again later."
      [] OTHER -> "Something went wrong. Please try again."

TechnicalMessages ==
    {"Failed to fetch", "TypeError: Cannot read properties of undefined (reading 'map')",
     "connect ECONNREFUSED 127.0.0.1:8000", "Request failed with status code 500"}

\* ApiErrors: type and message, with or without statusCode and originalError
ApiErrors ==
    LET plain == {[type |-> type, message |-> message] :
                      type \in ErrorTypes, message \in TechnicalMessages}
    IN plain
       \cup {[type |-> e.type, message |-> e.message, statusCode |-> status] :
                e \in plain, status \in {404, 500}}
       \cup {[type |-> e.type, message |-> e.message, originalError |-> PlainError(e.message)] :
                e \in plain}

\* createUserFriendlyMessage(error)
RunCreateUserFriendlyMessage ==
    /\ uIn = NotCalled
    /\ \E error \in ApiErrors :
          /\ uIn' = [fn |-> "createUserFriendlyMessage", error |-> error]
          /\ uOut' = [value |-> Str(createUserFriendlyMessage(error)), warnings |-> <<>>]
    /\ UNCHANGED <<validatorVars, classifierVars, callVars, healthVars, templateVars, uiVars>>

ErrorHandlingNext ==
    \/ RunCalculateRetryDelay
    \/ RunCalculateRetryDelayDefault
    \/ RunCreateUserFriendlyMessage

NotThrown == [cls |-> "none"]
NotClassified == [type |-> "none"]
NoResponse == [status |-> 0, contentType |-> Null, json |-> FALSE, body |-> Undef]
NoResult == [settled |-> FALSE]

ClassifierInit == cIn = NotThrown /\ cOut = NotClassified

CallInit ==
    /\ op = "none"
    /\ payload = Undef
    /\ hasSignal = FALSE
    /\ userAborted = FALSE
    /\ timer = "unset"
    /\ timeoutAborted = FALSE
    /\ combinedAborted = FALSE
    /\ elapsed = FALSE
    /\ fetchCount = 0
    /\ pc = "idle"
    /\ response = NoResponse
    /\ clientResult = NoResult
    /\ svc = "idle"
    /\ svcResult = NoResult

HealthInit ==
    /\ hPc = "idle"
    /\ hHasSignal = FALSE
    /\ hUserAborted = FALSE
    /\ hTimer = "unset"
    /\ hAborted = FALSE
    /\ hElapsed = FALSE
    /\ hStatus = 0
    /\ hResult = "pending"

DEFAULT_SECTION_ORDER ==
    <<[key |-> "p", label |-> "Projects"], [key |-> "w", label |-> "Work Experience"],
      [key |-> "e", label |-> "Education"]>>

\* the hook after its first render with no templates loaded
TemplateInit ==
    /\ templates = <<>>
    /\ selectedTemplate = ""
    /\ sectionOrder = DEFAULT_SECTION_ORDER
    /\ order = "pwe"
    /\ lastOp = [type |-> "render"]

\* ErrorBoundary before it is mounted; the constructor sets this.state
ErrorBoundaryInit ==
    /\ ebPc = "unmounted"
    /\ ebProps = [componentName |-> Undef, onError |-> FALSE]
    /\ ebState = [hasError |-> FALSE, error |-> Null, errorContext |-> Null]
    /\ ebCaught = Null
    /\ ebOnError = <<>>
    /\ ebLast = "none"

\* useResumeData before its first render; the useState and useRef initial values
ResumeDataInit ==
    /\ rdPc = "unmounted"
    /\ rdFallback = Arr(<<>>)
    /\ rdStrict = FALSE
    /\ rdRef = 0
    /\ rdState = [resumes |-> Arr(<<>>), templates |-> Arr(<<>>), isLoading |-> TRUE,
                  error |-> Null, isConnected |-> FALSE]
    /\ rdLoads = <<>>

\* useToast after its first render
ToastInit ==
    /\ tNow = 0
    /\ tToasts = <<>>
    /\ tTimers = <<>>
    /\ tShown = 0

\* TagsWidget before its first render
TagsInit ==
    /\ twMaxTags = Undef
    /\ twStart = <<>>
    /\ twValue = <<>>
    /\ twInput = ""
    /\ twOnChange = [called |-> FALSE]
    /\ twLast = [type |-> "none"]

\* ResumeApp at its first render: the useState initial values of its hooks
AppInit ==
    /\ apLoading = TRUE
    /\ apResumes = Arr(<<>>)
    /\ apSelectedId = ""
    /\ apKeywords = Arr(<<>>)
    /\ apResumeName = ""
    /\ apIsEditing = FALSE
    /\ apIsSaving = FALSE
    /\ apSaveAsNew = FALSE
    /\ apSaves = <<>>

Init == ValidatorInit /\ ClassifierInit /\ CallInit /\ UtilInit /\ HealthInit /\ TemplateInit
        /\ ErrorBoundaryInit /\ ResumeDataInit /\ ToastInit
        /\ TagsInit /\ AppInit

\* the validators of utils/validation run on bounded payloads
SpecValidate == Init /\ [][ValidatorNext]_vars

(***************************************************************************)
(* The write-path rules, stated per field path.                            *)
(***************************************************************************)
Present(x) == x.t # "undefined"

\* a string with at least one character that is not whitespace
NonBlank(x) == x.t = "string" /\ \E i \in 1..Len(x.v) : SubSeq(x.v, i, i) \notin Whitespace

IsString(x) == x.t = "string"

StringsOnly(x) == x.t = "array" /\ \A i \in 1..Len(x.v) : x.v[i].t = "string"

PathIf(cond, p) == IF cond THEN {p} ELSE {}

\* paths under prefix p of the properties in fs that are misused in object o
RequiredPaths(o, p, fs) == {p \o "." \o f : f \in {g \in fs : ~NonBlank(Get(o, g))}}
OptionalStringPaths(o, p, fs) ==
    {p \o "." \o f : f \in {g \in fs : Present(Get(o, g)) /\ ~IsString(Get(o, g))}}
OptionalListPaths(o, p, fs) ==
    {p \o "." \o f : f \in {g \in fs : Present(Get(o, g)) /\ ~StringsOnly(Get(o, g))}}

\* paths of an array property: the property itself, an entry, or fields of an entry
EntryPaths(x, name, EntryRule(_, _)) ==
    IF ~Present(x) THEN {}
    ELSE IF x.t # "array" THEN {name}
    ELSE UNION {LET p == name \o "[" \o ToString(i - 1) \o "]" IN
                IF x.v[i].t # "object" THEN {p} ELSE EntryRule(x.v[i], p)
                : i \in 1..Len(x.v)}

BasicInfoRule(b) ==
    IF ~Present(b) THEN {}
    ELSE IF b.t # "object" THEN {"basic_info"}
    ELSE RequiredPaths(b, "basic_info", {"name", "address", "email", "linkedin", "github"})
         \cup PathIf(Get(b, "phone").t \notin {"string", "number"}, "basic_info.phone")
         \cup OptionalStringPaths(b, "basic_info", {"homepage", "summary"})

EducationRule(e, p) ==
    RequiredPaths(e, p, {"university", "degree"})
    \cup OptionalStringPaths(e, p, {"duration", "location"})
    \cup OptionalListPaths(e, p, {"info"})

ProjectRule(e, p) ==
    RequiredPaths(e, p, {"title"})
    \cup OptionalStringPaths(e, p, {"repo"})
    \cup OptionalListPaths(e, p, {"description", "tools"})

ExperienceProjectRule(e, p) ==
    OptionalStringPaths(e, p, {"title"}) \cup OptionalListPaths(e, p, {"details", "tools"})

ExperienceRule(e, p) ==
    OptionalStringPaths(e, p, {"company", "duration", "location", "title"})
    \cup EntryPaths(Get(e, "projects"), p \o ".projects", ExperienceProjectRule)

NestedViolations(data) ==
    BasicInfoRule(Get(data, "basic_info"))
    \cup EntryPaths(Get(data, "education"), "education", EducationRule)
    \cup EntryPaths(Get(data, "projects"), "projects", ProjectRule)
    \cup EntryPaths(Get(data, "experiences"), "experiences", ExperienceRule)

ViolatedPaths(data) ==
    PathIf(~NonBlank(Get(data, "name")), "name")
    \cup PathIf(Present(Get(data, "keywords")) /\ ~StringsOnly(Get(data, "keywords")),
                "keywords")
    \cup NestedViolations(data)

\* C7: validateResumeData throws exactly when the payload is no object or breaks
\* at least one write-path rule; what it throws is a validation error; and for
\* an object payload the message names every violated field path of the pass.
C7_ValidateResumeDataNamesEveryViolation ==
    vIn.fn = "validateResumeData" =>
        /\ vOut.threw <=> (~isObject(vIn.data) \/ ViolatedPaths(vIn.data) # {})
        /\ vOut.threw => IsApiError(vOut.error) /\ vOut.error.type = "validation"
        /\ (vOut.threw /\ isObject(vIn.data)) =>
              \A p \in ViolatedPaths(vIn.data) : Includes(vOut.error.message, p)

\* a payload with several violations at once was rejected
C7_Witness ==
    /\ vIn.fn = "validateResumeData"
    /\ isObject(vIn.data)
    /\ {"name", "keywords", "basic_info.address", "education[1].degree"}
          \subseteq ViolatedPaths(vIn.data)
    /\ vOut.threw

\* paths under prefix p of the properties in fs that object o leaves out
OmissionPaths(o, p, fs) == {p \o "." \o f : f \in {g \in fs : ~Present(Get(o, g))}}

\* the nested structures of a record break a rule only by leaving fields out:
\* whatever is present in basic_info, education[i], projects[i] is well-typed
OnlyNestedOmissions(data) ==
    LET b == Get(data, "basic_info")
        ed == Get(data, "education")
        pr == Get(data, "projects")
    IN
    /\ Present(b) =>
          /\ b.t = "object"
          /\ BasicInfoRule(b) \subseteq
                OmissionPaths(b, "basic_info",
                              {"name", "address", "email", "phone", "linkedin", "github"})
    /\ Present(ed) =>
          /\ ed.t = "array"
          /\ \A i \in 1..Len(ed.v) :
                /\ ed.v[i].t = "object"
                /\ EducationRule(ed.v[i], "e") \subseteq
                      OmissionPaths(ed.v[i], "e", {"university", "degree"})
    /\ Present(pr) =>
          /\ pr.t = "array"
          /\ \A i \in 1..Len(pr.v) :
                /\ pr.v[i].t = "object"
                /\ ProjectRule(pr.v[i], "p") \subseteq OmissionPaths(pr.v[i], "p", {"title"})
    /\ EntryPaths(Get(data, "experiences"), "experiences", ExperienceRule) = {}

HasId(data) == NonBlank(Get(data, "id")) \/ NonBlank(Get(data, "_id"))

ClientMethods == {"get", "post", "put", "delete"}
ServiceOps == {"getAll", "getById", "create", "update", "copy", "getTemplates"}

Resolved(data, status) == [settled |-> TRUE, ok |-> TRUE, data |-> data, status |-> status]
Rejected(error) == [settled |-> TRUE, ok |-> FALSE, error |-> error]

\* a reference back to an enclosing object
CycleRef == [t |-> "cycle"]

RECURSIVE HasCycle(_)
HasCycle(x) ==
    CASE x.t = "cycle" -> TRUE
      [] x.t = "array" -> \E i \in 1..Len(x.v) : HasCycle(x.v[i])
      [] x.t = "object" -> \E k \in DOMAIN x.v : HasCycle(x.v[k])
      [] OTHER -> FALSE

Truthy(x) ==
    CASE x.t \in {"undefined", "null", "NaN"} -> FALSE
      [] x.t = "string" -> Len(x.v) > 0
      [] x.t = "number" -> x.v # 0
      [] x.t = "boolean" -> x.v
      [] OTHER -> TRUE

\* body: data ? JSON.stringify(data) : undefined  throws on a circular structure
JsonStringifyThrows(data) == Truthy(data) /\ HasCycle(data)

\* response.ok
Ok(status) == status \in 200..299

\* the content-type check treating every response as JSON
IsJsonContentType_Always(contentType) == TRUE

\* contentType && contentType.includes('application/json')
IsJsonContentType(contentType) ==
    Truthy(contentType) /\ Includes(contentType.v, "application/json")

\* clearTimeout left out
ClearTimeout_Skipped(t) == t

\* combineAbortSignals dropping the caller's signal
combineAbortSignals_TimeoutOnly(given, user, timeout) == timeout

\* whether the signal handed to fetch is aborted: the signal combineAbortSignals
\* built from the caller's and the timeout signal, which is aborted at once if
\* one of them already is and by its listeners when one of them aborts later;
\* the timeout signal itself when the caller gave none
combineAbortSignals(given, user, timeout) == IF given THEN user \/ timeout ELSE timeout

\* the catch block rethrowing what classifyError cannot place
CatchError_RethrowsUnknown(error) ==
    IF error.cls = "DOMException" /\ error.name = "AbortError"
    THEN [type |-> "network", message |-> "Request was cancelled", originalError |-> error]
    ELSE IF classifyError(error).type = "unknown" THEN error
    ELSE classifyError(error)

\* the catch block: what the call rejects with
CatchError(error) ==
    IF error.cls = "DOMException" /\ error.name = "AbortError"
    THEN [type |-> "network", message |-> "Request was cancelled", originalError |-> error]
    ELSE classifyError(error)

\* the catch block retrying a retryable failure, up to three fetches
CatchOutcome_Retries(error, fetches) ==
    IF isRetryableError(classifyError(error)) /\ fetches > 0 /\ fetches < 3
    THEN [pc |-> "fetching", result |-> NoResult, fetchCount |-> fetches + 1]
    ELSE [pc |-> "rejected", result |-> Rejected(classifyError(error)),
          fetchCount |-> fetches]

\* the catch block: the call ends rejected; no further fetch is made
CatchOutcome(error, fetches) ==
    [pc |-> "rejected", result |-> Rejected(CatchError(error)), fetchCount |-> fetches]

\* clearTimeout(timeoutId)
ClearTimeout(t) == IF t = "pending" THEN "cleared" ELSE t

\* request(): from the call to the first await
StartRequest(data) ==
    /\ timeoutAborted' = FALSE
    /\ combinedAborted' = combineAbortSignals(hasSignal', userAborted', FALSE)
    /\ elapsed' = FALSE
    /\ response' = NoResponse
    /\ IF JsonStringifyThrows(data)
       THEN LET out == CatchOutcome(TypeErr("Converting circular structure to JSON"),
                                    fetchCount)
            IN /\ pc' = out.pc
               /\ clientResult' = out.result
               /\ fetchCount' = out.fetchCount
               /\ timer' = "cleared"
       ELSE /\ pc' = "fetching"
            /\ clientResult' = NoResult
            /\ fetchCount' = fetchCount + 1
            /\ timer' = "pending"

\* the service function calling the client without validating first
RequestGate_Skipped(o, data) == Returned

\* what the service function does before it calls the client
RequestGate(o, data) ==
    IF o \in {"create", "update"} THEN validateResumeData(data) ELSE Returned

(***************************************************************************)
(* Requests and answers the calls are run on.                              *)
(***************************************************************************)
NamedResume == Obj([name |-> Str("Resume A"), keywords |-> Arr(<<Str("tla")>>)])

ClientPayloads == {Obj([data |-> Str("test")]), With(EmptyObj, "self", CycleRef), Num(0)}
ResumePayloads ==
    {NamedResume, EmptyObj, With(NamedResume, "name", Str(" ")),
     With(NamedResume, "education", Arr(<<EmptyObj>>)),
     With(NamedResume, "self", CycleRef)}

Statuses == {200, 204, 304, 404, 500, 503}

\* response.headers.get('content-type'): null when the header is absent
ContentTypes ==
    {Null, Str("application/json"), Str("application/json; charset=utf-8"),
     Str("text/html"), Str("Application/JSON")}

NetworkFailures ==
    {TypeErr("Failed to fetch"), TypeErr("NetworkError when attempting to fetch resource."),
     TypeErr("Load failed")}
BodyFailures ==
    {SyntaxErr("Unexpected token < in JSON at position 0"), TypeErr("network error")}

Record1 == Obj([_id |-> Str("1"), name |-> Str("A")])
Record2 == Obj([id |-> Str("2"), name |-> Str("B"), basic_info |-> ValidBasicInfo])
NamelessRecord == Obj([_id |-> Str("3")])
Template1 == Obj([id |-> Str("moderncv"), name |-> Str("Modern CV")])
Template2 == Obj([id |-> Str("russel"), name |-> Str("Russell")])

Bodies ==
    {Null, EmptyObj, Record1, NamelessRecord,
     Arr(<<Record1>>), Arr(<<Record1, Record2>>),
     Obj([data |-> Arr(<<Record1, Record2>>)]), Obj([data |-> Arr(<<NamelessRecord>>)]),
     Obj([data |-> Arr(<<Record1, Null>>)]), Obj([data |-> Str("none")]),
     Obj([id |-> Str("64af")]), Obj([id |-> Str("")]),
     Obj([resume |-> Str("\\documentclass{article}")]), Obj([resume |-> Num(1)]),
     Obj([templates |-> Arr(<<Template1, Template2>>)]),
     Obj([data |-> Obj([templates |-> Arr(<<Template1, Template2>>)])]),
     Obj([data |-> Obj([templates |-> Arr(<<Without(Template1, "name")>>)])])}

\* client.get / post / put / delete called directly
CallClient ==
    /\ op = "none"
    /\ \E m \in ClientMethods, data \in ClientPayloads, given \in BOOLEAN, pre \in BOOLEAN :
          /\ pre => given
          /\ op' = m
          /\ payload' = IF m \in {"post", "put"} THEN data ELSE Undef
          /\ hasSignal' = given
          /\ userAborted' = pre
          /\ svc' = "direct"
          /\ svcResult' = NoResult
          /\ StartRequest(payload')
    /\ UNCHANGED restVars
    /\ UNCHANGED <<validatorVars, classifierVars>>

\* resumeApi.create / update: validateResumeData, then client.post / put
CallWrite ==
    /\ op = "none"
    /\ \E o \in {"create", "update"}, data \in ResumePayloads,
          given \in BOOLEAN, pre \in BOOLEAN :
          /\ pre => given
          /\ op' = o
          /\ payload' = data
          /\ hasSignal' = given
          /\ userAborted' = pre
          /\ IF RequestGate(o, data).threw
             THEN /\ svc' = "rejected"
                  /\ svcResult' = Rejected(RequestGate(o, data).error)
                  /\ UNCHANGED <<timer, timeoutAborted, combinedAborted, elapsed,
                                 fetchCount, pc, response, clientResult>>
             ELSE /\ svc' = "awaiting"
                  /\ svcResult' = NoResult
                  /\ StartRequest(data)
    /\ UNCHANGED restVars
    /\ UNCHANGED <<validatorVars, classifierVars>>

\* resumeApi.getAll / getById / copy, templateApi.getTemplates: client.get
CallRead ==
    /\ op = "none"
    /\ \E o \in ServiceOps \ {"create", "update"}, given \in BOOLEAN, pre \in BOOLEAN :
          /\ pre => given
          /\ op' = o
          /\ payload' = Undef
          /\ hasSignal' = given
          /\ userAborted' = pre
          /\ svc' = "awaiting"
          /\ svcResult' = NoResult
          /\ StartRequest(Undef)
    /\ UNCHANGED restVars
    /\ UNCHANGED <<validatorVars, classifierVars>>

\* fetch resolves with a Response: the code up to the next await or the end
FetchResolves ==
    /\ pc = "fetching"
    /\ ~combinedAborted
    /\ \E status \in Statuses, contentType \in ContentTypes :
          /\ response' = [status |-> status, contentType |-> contentType,
                          json |-> IsJsonContentType(contentType), body |-> Undef]
          /\ timer' = ClearTimeout(timer)
          /\ IF ~Ok(status)
             THEN LET out == CatchOutcome(HttpResponse(status), fetchCount)
                  IN /\ pc' = out.pc
                     /\ clientResult' = out.result
                     /\ fetchCount' = out.fetchCount
             ELSE /\ fetchCount' = fetchCount
                  /\ IF response'.json
                     THEN pc' = "reading" /\ clientResult' = NoResult
                     ELSE pc' = "resolved" /\ clientResult' = Resolved(EmptyObj, status)
    /\ UNCHANGED restVars
    /\ UNCHANGED <<validatorVars, classifierVars, op, payload, hasSignal, userAborted,
                   timeoutAborted, combinedAborted, elapsed, svc, svcResult>>

\* fetch rejects: with AbortError once its signal is aborted, else a network failure
FetchRejects ==
    /\ pc = "fetching"
    /\ \E error \in IF combinedAborted THEN {AbortError} ELSE NetworkFailures :
          LET out == CatchOutcome(error, fetchCount)
          IN /\ pc' = out.pc
             /\ clientResult' = out.result
             /\ fetchCount' = out.fetchCount
    /\ timer' = ClearTimeout(timer)
    /\ UNCHANGED restVars
    /\ UNCHANGED <<validatorVars, classifierVars, op, payload, hasSignal, userAborted,
                   timeoutAborted, combinedAborted, elapsed, response, svc, svcResult>>

\* response.json() resolves with the parsed body
BodyResolves ==
    /\ pc = "reading"
    /\ ~combinedAborted
    /\ \E body \in Bodies :
          /\ pc' = "resolved"
          /\ response' = [response EXCEPT !.body = body]
          /\ clientResult' = Resolved(body, response.status)
    /\ UNCHANGED restVars
    /\ UNCHANGED <<validatorVars, classifierVars, op, payload, hasSignal, userAborted,
                   timer, timeoutAborted, combinedAborted, elapsed, fetchCount,
                   svc, svcResult>>

\* response.json() rejects: aborted signal, malformed JSON or a broken stream
BodyRejects ==
    /\ pc = "reading"
    /\ \E error \in IF combinedAborted THEN {AbortError} ELSE BodyFailures :
          LET out == CatchOutcome(error, fetchCount)
          IN /\ pc' = out.pc
             /\ clientResult' = out.result
             /\ fetchCount' = out.fetchCount
    /\ timer' = ClearTimeout(timer)
    /\ UNCHANGED restVars
    /\ UNCHANGED <<validatorVars, classifierVars, op, payload, hasSignal, userAborted,
                   timeoutAborted, combinedAborted, elapsed, response, svc, svcResult>>

\* the caller aborts its signal while the call is pending; the listener
\* combineAbortSignals registered aborts the combined signal
UserAborts ==
    /\ pc \in {"fetching", "reading"}
    /\ hasSignal
    /\ ~userAborted
    /\ userAborted' = TRUE
    /\ combinedAborted' = combineAbortSignals(hasSignal, TRUE, timeoutAborted)
    /\ UNCHANGED restVars
    /\ UNCHANGED <<validatorVars, classifierVars, op, payload, hasSignal, timer,
                   timeoutAborted, elapsed, fetchCount, pc, response, clientResult,
                   svc, svcResult>>

\* config.timeout ms have passed since the call; a timer still pending runs
\* its callback, timeoutController.abort()
TimeoutElapses ==
    /\ timer # "unset"
    /\ ~elapsed
    /\ elapsed' = TRUE
    /\ IF timer = "pending"
       THEN /\ timer' = "fired"
            /\ timeoutAborted' = TRUE
            /\ combinedAborted' = combineAbortSignals(hasSignal, userAborted, TRUE)
       ELSE UNCHANGED <<timer, timeoutAborted, combinedAborted>>
    /\ UNCHANGED restVars
    /\ UNCHANGED <<validatorVars, classifierVars, op, payload, hasSignal, userAborted,
                   fetchCount, pc, response, clientResult, svc, svcResult>>

(***************************************************************************)
(* services/api/resumeApi, services/api/templateApi: after the client call *)
(***************************************************************************)
Nullish(x) == x.t \in {"undefined", "null"}

\* x.key for a value that is neither null nor undefined
PropOf(x, k) == IF x.t = "object" THEN Get(x, k) ELSE Undef

\* a || b
OrElse(a, b) == IF Truthy(a) THEN a ELSE b

\* { ...r, _id: r._id || r.id || '' }
MapResume(r) ==
    With(IF r.t = "object" THEN r ELSE EmptyObj, "_id",
         OrElse(PropOf(r, "_id"), OrElse(PropOf(r, "id"), Str(""))))

\* validateApiResponse(value, schema); return result
ValidatedReturn(value, schema, result, status) ==
    IF validateApiResponse(value, schema).threw
    THEN Rejected(validateApiResponse(value, schema).error)
    ELSE Resolved(result, status)

getAll(res) ==
    IF Nullish(res.data)
    THEN Rejected(TypeErr("Cannot read properties of null (reading 'data')"))
    ELSE LET d == PropOf(res.data, "data") IN
         IF Nullish(d)
         THEN Rejected(TypeErr("Cannot read properties of undefined (reading 'map')"))
         ELSE IF d.t # "array"
         THEN Rejected(TypeErr("response.data.data.map is not a function"))
         ELSE IF \E i \in 1..Len(d.v) : Nullish(d.v[i])
         THEN Rejected(TypeErr("Cannot read properties of null (reading '_id')"))
         ELSE LET resumes == Arr([i \in 1..Len(d.v) |-> MapResume(d.v[i])])
              IN ValidatedReturn(resumes, "resumeArray", resumes, res.status)

getById(res) == ValidatedReturn(res.data, "resume", res.data, res.status)

create(res) == ValidatedReturn(res.data, "createResume", res.data, res.status)

update(res) == Resolved(Undef, res.status)

copy(res) == ValidatedReturn(res.data, "copyResume", res.data, res.status)

getTemplates(res) ==
    IF Nullish(res.data)
    THEN Rejected(TypeErr("Cannot read properties of null (reading 'data')"))
    ELSE LET templatesData == PropOf(res.data, "data")
         IN ValidatedReturn(templatesData, "templates",
                            PropOf(templatesData, "templates"), res.status)

\* the service function resumes after `await client...`: a rejection of the
\* client propagates, a response is checked and unwrapped
ServiceContinuation(o, res) ==
    IF ~res.ok THEN res
    ELSE CASE o = "getAll" -> getAll(res)
           [] o = "getById" -> getById(res)
           [] o = "create" -> create(res)
           [] o = "update" -> update(res)
           [] o = "copy" -> copy(res)
           [] o = "getTemplates" -> getTemplates(res)

ServiceSettles ==
    /\ svc = "awaiting"
    /\ pc \in {"resolved", "rejected"}
    /\ svcResult' = ServiceContinuation(op, clientResult)
    /\ svc' = IF svcResult'.ok THEN "resolved" ELSE "rejected"
    /\ UNCHANGED restVars
    /\ UNCHANGED <<validatorVars, classifierVars, op, payload, hasSignal, userAborted,
                   timer, timeoutAborted, combinedAborted, elapsed, fetchCount, pc,
                   response, clientResult>>

CallNext ==
    \/ CallClient
    \/ CallWrite
    \/ CallRead
    \/ FetchResolves
    \/ FetchRejects
    \/ BodyResolves
    \/ BodyRejects
    \/ UserAborts
    \/ TimeoutElapses
    \/ ServiceSettles

Next == CallNext

\* one call of the API client or of a service function, from call to settlement
Spec == Init /\ [][Next]_vars

(***************************************************************************)
(* classifyError run on bounded thrown values.                             *)
(***************************************************************************)
MaxStatus == 620

\* the statuses a Response can carry
ResponseStatuses == 200..599

ErrorMessages ==
    {"Failed to fetch", "Network request failed", "Request timeout", "connect ECONNREFUSED",
     "Validation failed", "name is required", "Load failed", ""}

\* classifyError(response) for a Response
RunClassifyResponse ==
    /\ cIn = NotThrown
    /\ \E status \in ResponseStatuses :
          /\ cIn' = HttpResponse(status)
          /\ cOut' = classifyError(cIn')
    /\ UNCHANGED restVars
    /\ UNCHANGED <<validatorVars, callVars>>

\* classifyError(object) for a plain object with a status property
RunClassifyStatusObject ==
    /\ cIn = NotThrown
    /\ \E status \in {Num(n) : n \in 0..MaxStatus} \cup {Str("500"), Null} :
          /\ cIn' = StatusObject(status)
          /\ cOut' = classifyError(cIn')
    /\ UNCHANGED restVars
    /\ UNCHANGED <<validatorVars, callVars>>

\* classifyError(error) for an Error, TypeError, SyntaxError or DOMException
RunClassifyError ==
    /\ cIn = NotThrown
    /\ \E cls \in {"Error", "TypeError", "SyntaxError"}, message \in ErrorMessages :
          /\ cIn' = Thrown(cls, cls, message, Undef)
          /\ cOut' = classifyError(cIn')
    /\ UNCHANGED restVars
    /\ UNCHANGED <<validatorVars, callVars>>

\* classifyError(value) for an abort, null, a primitive or a bare object
RunClassifyOther ==
    /\ cIn = NotThrown
    /\ \E value \in {AbortError, Primitive, StatusObject(Undef),
                     Thrown("DOMException", "TimeoutError", "signal timed out", Undef)} :
          /\ cIn' = value
          /\ cOut' = classifyError(cIn')
    /\ UNCHANGED restVars
    /\ UNCHANGED <<validatorVars, callVars>>

\* messages that carry keywords of more than one branch
OverlapMessages ==
    {"Network validation failed", "fetch: invalid connection", "required field",
     "Failed to fetch", "boom"}

\* classifyError(error) for an Error or TypeError that may also carry a status
RunClassifyErrorWithStatus ==
    /\ cIn = NotThrown
    /\ \E cls \in {"Error", "TypeError"}, message \in OverlapMessages,
          status \in {Undef, Num(200), Num(404), Num(503), Str("503")} :
          /\ cIn' = Thrown(cls, cls, message, status)
          /\ cOut' = classifyError(cIn')
    /\ UNCHANGED restVars
    /\ UNCHANGED <<validatorVars, callVars>>

ClassifierNext ==
    \/ RunClassifyResponse
    \/ RunClassifyStatusObject
    \/ RunClassifyError
    \/ RunClassifyOther
    \/ RunClassifyErrorWithStatus

\* classifyError of utils/errorHandling run once on a bounded thrown value
SpecClassify == Init /\ [][ClassifierNext]_vars

\* C6: every status in 500..599 is classified 'server' and every status in
\* 400..499 'validation', with statusCode equal to the status, and a Response
\* and a plain object carrying the same numeric status are classified alike.
C6_StatusClassification ==
    (cIn.cls \in {"Response", "Object"} /\ cIn.status.t = "number") =>
        LET s == cIn.status.v IN
        /\ s \in 500..599 => cOut.type = "server" /\ cOut.statusCode = s
        /\ s \in 400..499 => cOut.type = "validation" /\ cOut.statusCode = s
        /\ s \in 400..599 =>
              classifyError(HttpResponse(s)) = classifyError(StatusObject(Num(s)))

\* a plain object with status 500, the lowest server status, was classified
C6_Witness ==
    /\ cIn.cls = "Object"
    /\ cIn.status.t = "number"
    /\ cIn.status.v = 500
    /\ cOut.type = "server"
    /\ cOut.statusCode = 500

(***************************************************************************)
(* services/api/healthApi: check                                           *)
(***************************************************************************)
\* the outer catch block rethrowing instead of returning false
HealthCatch_Rethrows(error) == "rejected"

\* the outer catch block: clearTimeout, return false
HealthCatch(error) == "false"

\* check(signal): from the call to await fetch
HealthCheck ==
    /\ hPc = "idle"
    /\ \E given \in BOOLEAN, pre \in BOOLEAN :
          /\ pre => given
          /\ hHasSignal' = given
          /\ hUserAborted' = pre
          /\ hAborted' = combineAbortSignals(given, pre, FALSE)
    /\ hPc' = "fetching"
    /\ hTimer' = "pending"
    /\ UNCHANGED <<hElapsed, hStatus, hResult>>
    /\ UNCHANGED <<validatorVars, classifierVars, callVars, utilVars, templateVars, uiVars>>

\* fetch resolves: clearTimeout, false unless response.ok, else the body is read
HealthFetchResolves ==
    /\ hPc = "fetching"
    /\ ~hAborted
    /\ \E status \in ResponseStatuses :
          /\ hStatus' = status
          /\ IF ~Ok(status)
             THEN hPc' = "done" /\ hResult' = "false"
             ELSE hPc' = "reading" /\ hResult' = hResult
    /\ hTimer' = ClearTimeout(hTimer)
    /\ UNCHANGED <<hHasSignal, hUserAborted, hAborted, hElapsed>>
    /\ UNCHANGED <<validatorVars, classifierVars, callVars, utilVars, templateVars, uiVars>>

\* fetch rejects: with AbortError once its signal is aborted, else a network failure
HealthFetchRejects ==
    /\ hPc = "fetching"
    /\ \E error \in IF hAborted THEN {AbortError} ELSE NetworkFailures :
          hResult' = HealthCatch(error)
    /\ hPc' = "done"
    /\ hTimer' = ClearTimeout(hTimer)
    /\ UNCHANGED <<hHasSignal, hUserAborted, hAborted, hElapsed, hStatus>>
    /\ UNCHANGED <<validatorVars, classifierVars, callVars, utilVars, templateVars, uiVars>>

\* response.json() resolves: return true
HealthBodyResolves ==
    /\ hPc = "reading"
    /\ ~hAborted
    /\ hResult' = "true"
    /\ hPc' = "done"
    /\ UNCHANGED <<hHasSignal, hUserAborted, hTimer, hAborted, hElapsed, hStatus>>
    /\ UNCHANGED <<validatorVars, classifierVars, callVars, utilVars, templateVars, uiVars>>

\* response.json() rejects (abort, malformed body, broken stream): the inner
\* catch swallows the error and true is returned
HealthBodyRejects ==
    /\ hPc = "reading"
    /\ \E error \in IF hAborted THEN {AbortError} ELSE BodyFailures :
          hResult' = "true"
    /\ hPc' = "done"
    /\ UNCHANGED <<hHasSignal, hUserAborted, hTimer, hAborted, hElapsed, hStatus>>
    /\ UNCHANGED <<validatorVars, classifierVars, callVars, utilVars, templateVars, uiVars>>

\* the caller aborts its signal while the check is pending
HealthUserAborts ==
    /\ hPc \in {"fetching", "reading"}
    /\ hHasSignal
    /\ ~hUserAborted
    /\ hUserAborted' = TRUE
    /\ hAborted' = combineAbortSignals(hHasSignal, TRUE, hTimer = "fired")
    /\ UNCHANGED <<hPc, hHasSignal, hTimer, hElapsed, hStatus, hResult>>
    /\ UNCHANGED <<validatorVars, classifierVars, callVars, utilVars, templateVars, uiVars>>

\* CONNECTION_TIMEOUT ms have passed since the call; a timer still pending
\* runs its callback, timeoutController.abort()
HealthTimeoutElapses ==
    /\ hTimer # "unset"
    /\ ~hElapsed
    /\ hElapsed' = TRUE
    /\ IF hTimer = "pending"
       THEN /\ hTimer' = "fired"
            /\ hAborted' = combineAbortSignals(hHasSignal, hUserAborted, TRUE)
       ELSE UNCHANGED <<hTimer, hAborted>>
    /\ UNCHANGED <<hPc, hHasSignal, hUserAborted, hStatus, hResult>>
    /\ UNCHANGED <<validatorVars, classifierVars, callVars, utilVars, templateVars, uiVars>>

HealthNext ==
    \/ HealthCheck
    \/ HealthFetchResolves
    \/ HealthFetchRejects
    \/ HealthBodyResolves
    \/ HealthBodyRejects
    \/ HealthUserAborts
    \/ HealthTimeoutElapses

\* one call of healthApi.check, from call to settlement
SpecHealth == Init /\ [][HealthNext]_vars

\* C19 as claimed: check never rejects, resolves to true exactly when the
\* response has a 2xx status, to false after a caller abort or the timeout,
\* and leaves no pending timer.
C19_HealthFalseOnEveryAbort ==
    /\ hResult # "rejected"
    /\ hPc = "done" =>
          /\ hResult \in {"true", "false"}
          /\ hResult = "true" <=> Ok(hStatus)
          /\ ((hHasSignal /\ hUserAborted) \/ hTimer = "fired") => hResult = "false"
          /\ hTimer \in {"cleared", "fired"}

\* C19 amended: check never rejects, resolves to true exactly when the
\* response arrived with a 2xx status, whatever happens to the body, to false
\* otherwise, in particular when the caller abort or the timeout came before
\* the response; a caller abort during the body read leaves the result true;
\* and the timer is not pending at the end.
C19_HealthTrueExactlyOn2xx ==
    /\ hResult # "rejected"
    /\ hPc = "done" =>
          /\ hResult \in {"true", "false"}
          /\ hResult = "true" <=> Ok(hStatus)
          /\ (hAborted /\ hStatus = 0) => hResult = "false"
          /\ hTimer = "fired" => hResult = "false"
          /\ hTimer \in {"cleared", "fired"}
    /\ hPc # "done" => hResult = "pending"

\* the timeout fired before any response and the check resolved to false
C19_Witness ==
    /\ hPc = "done"
    /\ hTimer = "fired"
    /\ ~hHasSignal
    /\ hStatus = 0
    /\ hResult = "false"

(***************************************************************************)
(* hooks/useTemplateConfig                                                 *)
(***************************************************************************)
\* the ids of the templates the page loads
TemplateIds == <<"template1", "template2", "template3">>

\* the useEffect that selects the first template when none is selected
SelectDefault(tpls, selected) ==
    IF Len(tpls) > 0 /\ selected = "" THEN tpls[1] ELSE selected

\* newOrder.map((s) => s.key).join('')
OrderOf(newOrder) == Join([i \in 1..Len(newOrder) |-> newOrder[i].key], "")

\* [a[i], a[j]] = [a[j], a[i]] on a copy, for zero-based i and j
Swapped(prev, i, j) ==
    [k \in 1..Len(prev) |-> IF k = i + 1 THEN prev[j + 1]
                            ELSE IF k = j + 1 THEN prev[i + 1] ELSE prev[k]]

\* moveSectionUp wrapping the first section around to the end
moveSectionUp_Wraps(prev, index) ==
    IF index = 0 THEN Tail(prev) \o <<Head(prev)>> ELSE Swapped(prev, index - 1, index)

\* moveSectionUp: the next sectionOrder
moveSectionUp(prev, index) ==
    IF index = 0 THEN prev ELSE Swapped(prev, index - 1, index)

\* moveSectionDown: the next sectionOrder
moveSectionDown(prev, index) ==
    IF index = Len(prev) - 1 THEN prev ELSE Swapped(prev, index, index + 1)

\* the component renders again with the templates loaded
TemplatesLoaded ==
    /\ templates = <<>>
    /\ templates' = TemplateIds
    /\ selectedTemplate' = SelectDefault(templates', selectedTemplate)
    /\ lastOp' = [type |-> "render"]
    /\ UNCHANGED <<sectionOrder, order>>
    /\ UNCHANGED <<validatorVars, classifierVars, callVars, utilVars, healthVars, uiVars>>

SetSelectedTemplate ==
    /\ \E template \in {TemplateIds[i] : i \in 1..Len(TemplateIds)} \cup {""} :
          /\ selectedTemplate' = SelectDefault(templates, template)
          /\ lastOp' = [type |-> "setSelectedTemplate", template |-> template]
    /\ UNCHANGED <<templates, sectionOrder, order>>
    /\ UNCHANGED <<validatorVars, classifierVars, callVars, utilVars, healthVars, uiVars>>

MoveSectionUp ==
    /\ \E index \in 0..(Len(DEFAULT_SECTION_ORDER) - 1) :
          /\ sectionOrder' = moveSectionUp(sectionOrder, index)
          /\ order' = IF index = 0 THEN order ELSE OrderOf(sectionOrder')
          /\ lastOp' = [type |-> "moveSectionUp", index |-> index]
    /\ UNCHANGED <<templates, selectedTemplate>>
    /\ UNCHANGED <<validatorVars, classifierVars, callVars, utilVars, healthVars, uiVars>>

MoveSectionDown ==
    /\ \E index \in 0..(Len(DEFAULT_SECTION_ORDER) - 1) :
          /\ sectionOrder' = moveSectionDown(sectionOrder, index)
          /\ order' = IF index = Len(sectionOrder) - 1 THEN order ELSE OrderOf(sectionOrder')
          /\ lastOp' = [type |-> "moveSectionDown", index |-> index]
    /\ UNCHANGED <<templates, selectedTemplate>>
    /\ UNCHANGED <<validatorVars, classifierVars, callVars, utilVars, healthVars, uiVars>>

ResetTemplateConfig ==
    /\ sectionOrder' = DEFAULT_SECTION_ORDER
    /\ order' = "pwe"
    /\ selectedTemplate' = IF Len(templates) > 0 THEN templates[1] ELSE ""
    /\ lastOp' = [type |-> "resetTemplateConfig"]
    /\ UNCHANGED templates
    /\ UNCHANGED <<validatorVars, classifierVars, callVars, utilVars, healthVars, uiVars>>

TemplateNext ==
    \/ TemplatesLoaded
    \/ SetSelectedTemplate
    \/ MoveSectionUp
    \/ MoveSectionDown
    \/ ResetTemplateConfig

\* the useTemplateConfig hook under any sequence of its operations
SpecTemplate == Init /\ [][TemplateNext]_vars

\* C20: after any sequence of the operations sectionOrder has three entries
\* and is a permutation of the default sections, order is the concatenation of
\* its keys, and moveSectionUp(0) and moveSectionDown(2) change nothing.
C20_SectionOrderIsPermutation ==
    /\ [](/\ Len(sectionOrder) = 3
          /\ {sectionOrder[i] : i \in 1..3} = {DEFAULT_SECTION_ORDER[i] : i \in 1..3}
          /\ Len(order) = 3
          /\ \A i \in 1..3 : SubSeq(order, i, i) = sectionOrder[i].key)
    /\ [][(\/ lastOp' = [type |-> "moveSectionUp", index |-> 0]
           \/ lastOp' = [type |-> "moveSectionDown", index |-> 2])
          => (sectionOrder' = sectionOrder /\ order' = order
              /\ selectedTemplate' = selectedTemplate)]_vars

\* the last section was moved to the front in two steps
C20_Witness ==
    /\ order = "epw"
    /\ sectionOrder[1].key = "e"
    /\ lastOp = [type |-> "moveSectionUp", index |-> 1]
    /\ selectedTemplate = "template2"

(***************************************************************************)
(* Properties of getConfigValue.                                           *)
(***************************************************************************)
\* getConfigValue of constants/config run once on a bounded call
SpecConfig == Init /\ [][ConfigNext]_vars

Missing(envValue) == envValue.t = "undefined" \/ (envValue.t = "string" /\ Len(envValue.v) = 0)

\* the parser's verdict on a present value is a failure
ParseFails(parser, value) == ApplyParser(parser, value).t \in {"undefined", "NaN"}

\* C11: an absent or empty value gives the default and one warning naming the
\* config and saying 'missing'; a present value without parser is returned
\* unchanged without warning; a value the parser turns into NaN or undefined
\* gives the default and one warning saying 'invalid'; a parsed value is
\* returned without warning.
C11_ConfigFallbackAndWarnings ==
    uIn.fn = "getConfigValue" =>
        /\ Missing(uIn.envValue) =>
              /\ uOut.value = uIn.defaultValue
              /\ Len(uOut.warnings) = 1
              /\ Includes(uOut.warnings[1], uIn.configName)
              /\ Includes(uOut.warnings[1], "missing")
        /\ (~Missing(uIn.envValue) /\ uIn.parser = "none") =>
              /\ uOut.value = uIn.envValue
              /\ uOut.warnings = <<>>
        /\ (~Missing(uIn.envValue) /\ uIn.parser # "none") =>
              IF ParseFails(uIn.parser, uIn.envValue.v)
              THEN /\ uOut.value = uIn.defaultValue
                   /\ Len(uOut.warnings) = 1
                   /\ Includes(uOut.warnings[1], "invalid")
              ELSE /\ uOut.value = ApplyParser(uIn.parser, uIn.envValue.v)
                   /\ uOut.warnings = <<>>

\* '12px' was parsed to 12 and ' 42' to 42 by the parseInt parser, or 'abc'
\* was refused with a warning
C11_Witness ==
    /\ uIn.fn = "getConfigValue"
    /\ uIn.parser = "parseInt"
    /\ uIn.envValue = Str("abc")
    /\ uOut.value = uIn.defaultValue
    /\ Len(uOut.warnings) = 1
    /\ Includes(uOut.warnings[1], "has invalid value \"abc\"")

\* C12: the resolved value is the default or has the default's type.
C12_ResolvedValueHasDefaultType ==
    uIn.fn = "getConfigValue" =>
        \/ uOut.value = uIn.defaultValue
        \/ TypeOf(uOut.value) = TypeOf(uIn.defaultValue)

(***************************************************************************)
(* Properties of calculateRetryDelay and createUserFriendlyMessage.        *)
(***************************************************************************)
\* calculateRetryDelay or createUserFriendlyMessage of utils/errorHandling run once
SpecErrorHandling == Init /\ [][ErrorHandlingNext]_vars

C14_AttemptZeroYieldsBase ==
    uIn.fn = "calculateRetryDelay" =>
        /\ uIn.attempt = 0 => uOut.value.v = uIn.config.baseDelayMs
        /\ uIn.attempt < 0 => uOut.value.v = calculateRetryDelay(0, uIn.config)

\* C14 amended: attempt 0 yields the smaller of baseDelayMs and maxDelayMs,
\* hence baseDelayMs exactly when baseDelayMs <= maxDelayMs, and a negative
\* attempt yields what attempt 0 yields.
C14_AttemptZeroYieldsCappedBase ==
    uIn.fn = "calculateRetryDelay" =>
        /\ uIn.attempt <= 0 =>
              /\ uOut.value.v = MathMin(uIn.config.baseDelayMs, uIn.config.maxDelayMs)
              /\ (uOut.value.v = uIn.config.baseDelayMs
                    <=> uIn.config.baseDelayMs <= uIn.config.maxDelayMs)
        /\ uIn.attempt < 0 => uOut.value.v = calculateRetryDelay(0, uIn.config)

\* a negative attempt was given with a policy whose base lies under its cap
C14_Witness ==
    /\ uIn.fn = "calculateRetryDelay"
    /\ uIn.attempt < 0
    /\ uIn.config.baseDelayMs = 1000
    /\ uIn.config.maxDelayMs = 30000
    /\ uOut.value.v = 1000

\* C16: the sentence shown depends only on the kind of the error: every
\* ApiError of the same kind gives the same sentence, and the technical
\* message is no part of it.
C16_UserMessageDependsOnKindOnly ==
    uIn.fn = "createUserFriendlyMessage" =>
        /\ \A other \in ApiErrors :
              other.type = uIn.error.type =>
                 createUserFriendlyMessage(other) = uOut.value.v
        /\ ~Includes(uOut.value.v, uIn.error.message)
        /\ Len(uOut.value.v) > 0

\* an unknown error carrying an exception text and its original error was shown
C16_Witness ==
    /\ uIn.fn = "createUserFriendlyMessage"
    /\ uIn.error.type = "unknown"
    /\ "originalError" \in DOMAIN uIn.error
    /\ Includes(uIn.error.message, "TypeError")
    /\ uOut.value.v = "Something went wrong. Please try again."

(***************************************************************************)
(* Properties of one call.                                                 *)
(***************************************************************************)
Terminal == {"resolved", "rejected"}
Pending == {"fetching", "reading"}

Cancelled(e) == IsApiError(e) /\ e.type = "network" /\ e.message = "Request was cancelled"

\* C1: whatever makes an ApiClient call fail, the caller's promise rejects with
\* an ApiError: a type among network, validation, server, unknown and a
\* non-empty message; never a raw Response, DOMException or Error.
C1_RejectionsAreClassified ==
    pc = "rejected" =>
        /\ IsApiError(clientResult.error)
        /\ Len(clientResult.error.message) > 0

\* a call failed while parsing the body of a 2xx response
C1_Witness ==
    /\ pc = "rejected"
    /\ Ok(response.status)
    /\ response.json
    /\ "originalError" \in DOMAIN clientResult.error
    /\ clientResult.error.originalError.cls = "SyntaxError"

\* C2 as claimed: every settled call has issued exactly one fetch.
C2_ExactlyOneFetchPerCall == pc \in Terminal => fetchCount = 1

\* C2 amended: a call issues at most one fetch, exactly one unless serialising
\* its body threw before fetch was reached; a pending call has issued its one
\* fetch; and a settled call keeps its outcome and issues no further fetch.
C2_AtMostOneFetchAndOutcomeIsFinal ==
    [][/\ fetchCount' <= 1
       /\ pc' \in Pending => fetchCount' = 1
       /\ pc' \in Terminal => (fetchCount' = 1 <=> ~JsonStringifyThrows(payload'))
       /\ pc \in Terminal =>
             /\ pc' = pc
             /\ clientResult' = clientResult
             /\ fetchCount' = fetchCount]_vars

\* a call failed with a retryable server error and time went by without a retry
C2_Witness ==
    /\ pc = "rejected"
    /\ clientResult.error.type = "server"
    /\ fetchCount = 1
    /\ elapsed

\* C3 as claimed: a call whose caller signal was aborted before or during the
\* call, or whose timeout fired, settles rejected with the cancellation error.
C3_AbortAlwaysCancels ==
    (pc \in Terminal /\ ((hasSignal /\ userAborted) \/ timer = "fired")) =>
        pc = "rejected" /\ Cancelled(clientResult.error)

\* C3 amended: such a call never resolves, and it rejects with type network and
\* message 'Request was cancelled', the same for a caller abort and a timeout,
\* whenever fetch was reached; fetch is not reached only when serialising the
\* body threw, and then the call rejects with that error classified.
C3_AbortCancelsOnceFetchIsReached ==
    (pc \in Terminal /\ ((hasSignal /\ userAborted) \/ timer = "fired")) =>
        /\ pc = "rejected"
        /\ fetchCount = 1 => Cancelled(clientResult.error)
        /\ fetchCount = 0 => JsonStringifyThrows(payload)

\* the caller aborted while the body of a 2xx response was being read
C3_Witness ==
    /\ pc = "rejected"
    /\ hasSignal /\ userAborted
    /\ timer = "cleared"
    /\ Ok(response.status)
    /\ response.json
    /\ Cancelled(clientResult.error)

\* C4: once the timeout has elapsed a call that is still pending, waiting for
\* headers or reading the body, has been aborted.
C4_TimeoutCoversWholeCall == (elapsed /\ pc \in Pending) => combinedAborted

\* C5: a create or update whose payload fails validateResumeData fails with a
\* validation error and issues no request: the client is never called.
C5_InvalidPayloadNeverFetched ==
    (op \in {"create", "update"} /\ validateResumeData(payload).threw) =>
        /\ pc = "idle"
        /\ fetchCount = 0
        /\ timer = "unset"
        /\ svc = "rejected"
        /\ IsApiError(svcResult.error)
        /\ svcResult.error.type = "validation"

\* a create without a name was rejected
C5_Witness ==
    /\ op = "create"
    /\ ~Present(Get(payload, "name"))
    /\ svc = "rejected"
    /\ svcResult.error.type = "validation"
    /\ fetchCount = 0

\* the schema a service function checks its response against, and the value
\* it checked given the value it returned
SchemaOf(o) ==
    CASE o = "getAll" -> "resumeArray"
      [] o = "getById" -> "resume"
      [] o = "create" -> "createResume"
      [] o = "copy" -> "copyResume"
      [] o = "getTemplates" -> "templates"

CheckedValue(o, returned) ==
    IF o = "getTemplates" THEN Obj([templates |-> returned]) ELSE returned

\* C8: the checked service functions never resolve with data that fails their
\* schema, and a body that makes them fail after the request has completed
\* makes them reject with a validation error.
C8_MalformedBodyRejectsAsValidation ==
    (op \in ServiceOps \ {"update"} /\ pc = "resolved") =>
        /\ svc = "resolved" =>
              ~validateApiResponse(CheckedValue(op, svcResult.data), SchemaOf(op)).threw
        /\ svc = "rejected" =>
              IsApiError(svcResult.error) /\ svcResult.error.type = "validation"

\* C10: answered with the documented shapes, getAll resolves to the array of
\* records with each _id preserved and getTemplates to the templates array.
C10_DocumentedShapesAreReturned ==
    (svc \in {"resolved", "rejected"} /\ pc = "resolved") =>
        /\ (/\ op = "getAll"
            /\ ~validateApiResponse(clientResult.data, "resumeArray").threw) =>
               /\ svc = "resolved"
               /\ svcResult.data.t = "array"
               /\ Len(svcResult.data.v) = Len(clientResult.data.v)
               /\ \A i \in 1..Len(clientResult.data.v) :
                     Present(Get(clientResult.data.v[i], "_id")) =>
                        Get(svcResult.data.v[i], "_id") = Get(clientResult.data.v[i], "_id")
        /\ (/\ op = "getTemplates"
            /\ ~validateApiResponse(clientResult.data, "templates").threw) =>
               /\ svc = "resolved"
               /\ svcResult.data = Get(clientResult.data, "templates")

\* the rejection stems from a failure of the connection: fetch rejected with
\* the platform's network TypeError, or the body stream broke
Connectivity(e) ==
    /\ "originalError" \in DOMAIN e
    /\ e.originalError \in NetworkFailures \cup {x \in BodyFailures : x.cls = "TypeError"}

\* C15: isRetryableError holds exactly for the kinds network and server, so a
\* failed call is retryable exactly when it failed by connectivity,
\* cancellation, timeout or a status of 500 or more, and never on a 4xx status.
C15_RetryableExactlyForTransientFailures ==
    /\ \A type \in ErrorTypes :
          isRetryableError([type |-> type, message |-> "m"]) <=> type \in {"network", "server"}
    /\ pc = "rejected" =>
          /\ isRetryableError(clientResult.error) <=>
                \/ Connectivity(clientResult.error)
                \/ Cancelled(clientResult.error)
                \/ (response # NoResponse /\ response.status >= 500)
          /\ (response # NoResponse /\ response.status \in 400..499) =>
                ~isRetryableError(clientResult.error)

\* C17: a call that has reached its outcome, resolved or rejected, has no
\* pending timeout timer: the timer was cleared, or it had fired before.
C17_TimerNotPendingAfterOutcome ==
    pc \in Terminal => timer \in {"cleared", "fired"}

\* a call resolved with a parsed body, and the timeout went by without firing
C17_Witness ==
    /\ pc = "resolved"
    /\ response.json
    /\ timer = "cleared"
    /\ elapsed
    /\ ~timeoutAborted

\* C18: a call that resolved carries the parsed body exactly when the
\* content-type of its 2xx response contains application/json and an empty
\* object otherwise, and a 2xx response without such a content-type always
\* resolves the call.
C18_JsonParsedOnlyForJsonContentType ==
    LET jsonType == /\ response.contentType.t = "string"
                    /\ Includes(response.contentType.v, "application/json")
    IN /\ pc = "resolved" =>
             /\ Ok(response.status)
             /\ clientResult.status = response.status
             /\ IF jsonType
                THEN response.body \in Bodies /\ clientResult.data = response.body
                ELSE response.body = Undef /\ clientResult.data = EmptyObj
       /\ (Ok(response.status) /\ ~jsonType) => pc = "resolved"

\* a 204 without content-type resolved with an empty object
C18_Witness ==
    /\ pc = "resolved"
    /\ response.status = 204
    /\ response.contentType = Null
    /\ clientResult.data = EmptyObj

(***************************************************************************)
(* components/ui/ErrorBoundary                                             *)
(***************************************************************************)
\* the state outside ErrorBoundary
boundaryRest == <<apiVars, resumeDataVars, toastVars, tagsVars, appVars>>

\* error.message is a string: true of Error instances, not of a thrown
\* string, null or plain object
HasMessage(error) == InstanceOfError(error)

extractOperationType(error) ==
    LET message == toLowerCase(error.message)
    IN IF Includes(message, "fetch") \/ Includes(message, "network") THEN "network"
       ELSE IF Includes(message, "render") \/ Includes(message, "component") THEN "render"
       ELSE IF Includes(message, "state") \/ Includes(message, "hook") THEN "state"
       ELSE IF Includes(message, "validation") \/ Includes(message, "invalid") THEN "validation"
       ELSE "unknown"

getDerivedStateFromError(state, error) ==
    [state EXCEPT !.hasError = TRUE, !.error = error]

\* the context componentDidCatch builds; error.message.toLowerCase() throws a
\* TypeError when the thrown value has no string message
ErrorContextOf(props, error, componentStack, now) ==
    [componentName |-> IF Truthy(props.componentName) THEN props.componentName
                       ELSE Str("Unknown"),
     operationType |-> extractOperationType(error),
     componentStack |-> IF Truthy(componentStack) THEN componentStack ELSE Undef,
     timestamp |-> [t |-> "Date", v |-> now]]

ComponentNames == {Undef, Str(""), Str("ResumeEditor")}
ComponentStacks == {Null, Str("\n    at ThrowingComponent")}
\* Date.now() at the time of the catch, in seconds of the session
Instants == {17, 18}
RenderMessages ==
    {"Failed to fetch", "NetworkError", "Cannot render component", "Invalid hook call",
     "state update on an unmounted component", "Validation failed", "invalid date", "boom", ""}
\* what a child can throw during render: Error instances, a string, a plain object
RenderThrows ==
    {PlainError(m) : m \in RenderMessages}
        \cup {TypeErr("Cannot read properties of undefined"), Primitive,
              StatusObject(Num(500))}

\* <ErrorBoundary componentName=... onError=...> is constructed and rendered
Mount ==
    /\ ebPc = "unmounted"
    /\ \E componentName \in ComponentNames, onError \in BOOLEAN :
          ebProps' = [componentName |-> componentName, onError |-> onError]
    /\ ebPc' = "mounted"
    /\ ebLast' = "mount"
    /\ UNCHANGED <<ebState, ebCaught, ebOnError>>
    /\ UNCHANGED boundaryRest

\* a child throws during render: getDerivedStateFromError, then componentDidCatch
ChildThrows ==
    /\ ebPc = "mounted"
    /\ ~ebState.hasError
    /\ \E error \in RenderThrows, componentStack \in ComponentStacks, now \in Instants :
          /\ ebCaught' = error
          /\ IF HasMessage(error)
             THEN LET errorContext == ErrorContextOf(ebProps, error, componentStack, now)
                  IN /\ ebState' = [getDerivedStateFromError(ebState, error)
                                        EXCEPT !.errorContext = errorContext]
                     /\ ebOnError' = IF ebProps.onError
                                     THEN <<[error |-> error, context |-> errorContext]>>
                                     ELSE <<>>
                     /\ ebPc' = "mounted"
             ELSE /\ ebState' = getDerivedStateFromError(ebState, error)
                  /\ ebOnError' = <<>>
                  /\ ebPc' = "failed"
    /\ ebLast' = "throw"
    /\ UNCHANGED ebProps
    /\ UNCHANGED boundaryRest

\* the Try Again button of the default fallback
HandleRetry ==
    /\ ebPc = "mounted"
    /\ ebState.hasError
    /\ ebState' = [hasError |-> FALSE, error |-> Null, errorContext |-> Null]
    /\ ebLast' = "retry"
    /\ UNCHANGED <<ebPc, ebProps, ebCaught, ebOnError>>
    /\ UNCHANGED boundaryRest

BoundaryNext ==
    \/ Mount
    \/ ChildThrows
    \/ HandleRetry

SpecBoundary == Init /\ [][BoundaryNext]_vars

OperationTypes == {"network", "render", "state", "validation", "unknown"}

\* C21: after a child threw, the boundary is in the error state holding the
\* thrown value and, when an onError prop is given, has called it exactly once
\* with that value and a context naming the component (or 'Unknown'), one of
\* the five operation types and a timestamp; after handleRetry the state is
\* hasError=false, error=null, errorContext=null.
C21_EveryThrownValueIsReported ==
    /\ ebLast = "throw" =>
          /\ ebState.hasError
          /\ ebState.error = ebCaught
          /\ ebProps.onError =>
                /\ Len(ebOnError) = 1
                /\ ebOnError[1].error = ebCaught
                /\ ebOnError[1].context = ebState.errorContext
                /\ ebOnError[1].context.componentName =
                      (IF ebProps.componentName \in {Undef, Str("")} THEN Str("Unknown")
                       ELSE ebProps.componentName)
                /\ ebOnError[1].context.operationType \in OperationTypes
                /\ ebOnError[1].context.timestamp.t = "Date"
    /\ ebLast = "retry" =>
          ebState = [hasError |-> FALSE, error |-> Null, errorContext |-> Null]

(***************************************************************************)
(* The decision order of classifyError, rule by rule.                      *)
(***************************************************************************)
Mentions(error, words) ==
    \E w \in words : Includes(toLowerCase(error.message), w)

NumericStatus(error) == error.status.t = "number"

\* rule i of the decision order applies to the thrown value
RuleMatches(i, error) ==
    CASE i = 1 -> error.cls = "DOMException" /\ error.name = "AbortError"
      [] i = 2 -> error.cls = "TypeError" /\ Mentions(error, {"fetch", "network"})
      [] i = 3 -> error.cls = "Response" /\ error.status.v >= 400
      [] i = 4 -> /\ error.cls \notin {"Primitive", "none"}
                  /\ NumericStatus(error)
                  /\ error.status.v >= 400
      [] i = 5 -> /\ InstanceOfError(error)
                  /\ Mentions(error, {"network", "timeout", "econnrefused", "enotfound",
                                      "connection"})
      [] i = 6 -> /\ InstanceOfError(error)
                  /\ Mentions(error, {"validation", "invalid", "required"})
      [] i = 7 -> InstanceOfError(error)
      [] OTHER -> TRUE

FirstRule(error) ==
    CHOOSE i \in 1..8 : RuleMatches(i, error) /\ \A j \in 1..(i - 1) : ~RuleMatches(j, error)

\* the kind rule i assigns
RuleKind(i, error) ==
    CASE i \in {1, 2, 5} -> "network"
      [] i \in {3, 4} -> IF error.status.v >= 500 THEN "server" ELSE "validation"
      [] i = 6 -> "validation"
      [] OTHER -> "unknown"

\* C22: classifyError returns one ApiError for every thrown value, of the kind
\* of the first rule that applies in the order abort, TypeError mentioning
\* fetch/network, Response status, object with numeric status, Error with a
\* connectivity word, Error with a validation word, other Error, anything
\* else; an abort carries 'Request was cancelled', a status rule carries the
\* status, and an Error classified by its message keeps the original.
C22_FirstMatchingRuleDecides ==
    cIn # NotThrown =>
        LET i == FirstRule(cIn) IN
        /\ IsApiError(cOut)
        /\ cOut.type = RuleKind(i, cIn)
        /\ i = 1 => cOut.message = "Request was cancelled"
        /\ i \in {3, 4} => cOut.statusCode = cIn.status.v
        /\ i \in {5, 6, 7} => cOut.originalError = cIn
        /\ i \in {7, 8} => cOut.message = "An unexpected error occurred"

\* an Error whose message says network but whose status says 404 was
\* classified by its status
C22_Witness ==
    /\ cIn = Thrown("Error", "Error", "Network validation failed", Num(404))
    /\ cOut.type = "validation"
    /\ cOut.statusCode = 404

(***************************************************************************)
(* ApiClient.buildUrl                                                      *)
(***************************************************************************)
endsWith(s, k) == Len(s) >= Len(k) /\ SubSeq(s, Len(s) - Len(k) + 1, Len(s)) = k
startsWith(s, k) == Len(s) >= Len(k) /\ SubSeq(s, 1, Len(k)) = k

\* buildUrl keeping the trailing slash of the base
buildUrl_KeepsTrailingSlash(baseUrl, path) ==
    baseUrl \o (IF startsWith(path, "/") THEN path ELSE "/" \o path)

buildUrl(baseUrl, path) ==
    LET base == IF endsWith(baseUrl, "/") THEN SubSeq(baseUrl, 1, Len(baseUrl) - 1)
                ELSE baseUrl
        normalizedPath == IF startsWith(path, "/") THEN path ELSE "/" \o path
    IN base \o normalizedPath

Slashes == {"", "/", "//"}
BaseUrls ==
    {origin \o prefix \o slashes :
        origin \in {"http://localhost:8000", "https://api.example.org"},
        prefix \in {"", "/api"}, slashes \in Slashes}
Paths ==
    {slashes \o rest : slashes \in Slashes, rest \in {"", "resumes", "resumes/1", "templates/"}}

\* buildUrl(path) of a client configured with baseUrl
RunBuildUrl ==
    /\ uIn = NotCalled
    /\ \E baseUrl \in BaseUrls, path \in Paths :
          /\ uIn' = [fn |-> "buildUrl", baseUrl |-> baseUrl, path |-> path]
          /\ uOut' = [value |-> Str(buildUrl(baseUrl, path)), warnings |-> <<>>]
    /\ UNCHANGED <<validatorVars, classifierVars, callVars, healthVars, templateVars, uiVars>>

BuildUrlNext == RunBuildUrl

SpecBuildUrl == Init /\ [][BuildUrlNext]_vars

RECURSIVE StripTrailingSlashes(_)
StripTrailingSlashes(s) ==
    IF endsWith(s, "/") THEN StripTrailingSlashes(SubSeq(s, 1, Len(s) - 1)) ELSE s

RECURSIVE StripLeadingSlashes(_)
StripLeadingSlashes(s) ==
    IF startsWith(s, "/") THEN StripLeadingSlashes(SubSeq(s, 2, Len(s))) ELSE s

\* the base and the path joined by exactly one slash
JoinedByOneSlash(baseUrl, path) ==
    StripTrailingSlashes(baseUrl) \o "/" \o StripLeadingSlashes(path)

\* C23 (as stated): for every base and path, however many slashes the base
\* ends with and the path starts with, the URL is the base and the path
\* joined by exactly one slash.
C23_OneSlashForAnySlashes ==
    uIn.fn = "buildUrl" => uOut.value = Str(JoinedByOneSlash(uIn.baseUrl, uIn.path))

\* C23 (amended): buildUrl removes one trailing slash of the base and adds a
\* leading slash to a path that has none; the URL has exactly one slash
\* between base and path when the base ends with at most one slash and the
\* path starts with at most one, and otherwise keeps every further slash.
C23_OneSlashForAtMostOneSlashEach ==
    uIn.fn = "buildUrl" =>
        LET extraBase == Len(uIn.baseUrl) - Len(StripTrailingSlashes(uIn.baseUrl))
            extraPath == Len(uIn.path) - Len(StripLeadingSlashes(uIn.path))
            extra == (IF extraBase > 1 THEN extraBase - 1 ELSE 0)
                        + (IF extraPath > 1 THEN extraPath - 1 ELSE 0)
        IN /\ (extraBase <= 1 /\ extraPath <= 1) =>
                  uOut.value = Str(JoinedByOneSlash(uIn.baseUrl, uIn.path))
           /\ Len(uOut.value.v) = Len(JoinedByOneSlash(uIn.baseUrl, uIn.path)) + extra
           /\ startsWith(uOut.value.v, StripTrailingSlashes(uIn.baseUrl) \o "/")
           /\ endsWith(uOut.value.v, "/" \o StripLeadingSlashes(uIn.path))

\* a base ending with a slash and a path starting with one were joined
C23_Witness ==
    /\ uIn.fn = "buildUrl"
    /\ uIn.baseUrl = "http://localhost:8000/api/"
    /\ uIn.path = "/resumes"
    /\ uOut.value = Str("http://localhost:8000/api/resumes")

(***************************************************************************)
(* hooks/useResumeData                                                     *)
(***************************************************************************)
\* the state outside useResumeData
resumeDataRest == <<apiVars, boundaryVars, toastVars, tagsVars, appVars>>

FALLBACK_TEMPLATES ==
    Arr(<<Obj([id |-> Str("moderncv"), name |-> Str("Modern CV")]),
          Obj([id |-> Str("russel"), name |-> Str("Russell")]),
          Obj([id |-> Str("resume"), name |-> Str("Resume")])>>)

\* array.map(F)
MapArr(F(_), array) == Arr([i \in 1..Len(array.v) |-> F(array.v[i])])

normalizeResume(resume) ==
    LET basic_info == Get(resume, "basic_info") IN
    IF Truthy(basic_info) /\ TypeOf(Get(basic_info, "phone")) = "number"
    THEN With(resume, "basic_info",
              With(basic_info, "phone", Str(ToString(Get(basic_info, "phone").v))))
    ELSE resume

\* an ApiError rejected by a service function
ApiErrorThrown(type, message) ==
    [cls |-> "Object", name |-> "", message |-> message, status |-> Undef, type |-> type]

isAbortError(err) ==
    \/ InstanceOfError(err) /\ err.name = "AbortError"
    \/ err.cls = "DOMException" /\ err.name = "AbortError"
    \/ err.cls # "Primitive" /\ err.message = "Request was cancelled"

\* err instanceof Error ? err.message : 'Failed to connect'
ErrorMessageOf(err) == IF InstanceOfError(err) THEN Str(err.message) ELSE Str("Failed to connect")

\* the state updates of a failed load
UseFallback(state, fallback, message) ==
    [state EXCEPT !.isConnected = FALSE, !.error = message,
                  !.resumes = MapArr(normalizeResume, fallback),
                  !.templates = FALLBACK_TEMPLATES]

\* the state updates of a load whose two requests resolved
UseData(state, resumeData, templateData) ==
    [state EXCEPT !.resumes = resumeData, !.templates = templateData, !.isConnected = TRUE]

\* setIsLoading(true); setError(null)
StartLoading(state) == [state EXCEPT !.isLoading = TRUE, !.error = Null]

\* initializeData after healthApi.check() resolved
AfterHealthCheck(state, fallback, requestId, current, isHealthy) ==
    IF requestId # current THEN state
    ELSE IF ~isHealthy
    THEN [UseFallback(state, fallback, Str("Unable to connect to server"))
             EXCEPT !.isLoading = FALSE]
    ELSE state

\* initializeData whose return on a cancelled request skips the finally block
AfterInitializeData_AbortSkipsFinally(state, fallback, requestId, current, settled) ==
    IF requestId # current THEN state
    ELSE IF settled.ok
    THEN [UseData(state, settled.resumes, settled.templates) EXCEPT !.isLoading = FALSE]
    ELSE IF isAbortError(settled.error) THEN state
    ELSE [UseFallback(state, fallback, ErrorMessageOf(settled.error))
             EXCEPT !.isLoading = FALSE]

\* initializeData: the try/catch/finally around Promise.all
AfterInitializeData(state, fallback, requestId, current, settled) ==
    LET body == IF requestId # current THEN state
                ELSE IF settled.ok THEN UseData(state, settled.resumes, settled.templates)
                ELSE IF isAbortError(settled.error) THEN state
                ELSE UseFallback(state, fallback, ErrorMessageOf(settled.error))
    IN IF requestId = current THEN [body EXCEPT !.isLoading = FALSE] ELSE body

\* refetch: the try/catch/finally around Promise.all
AfterRefetch(state, fallback, settled) ==
    LET body == IF settled.ok THEN UseData(state, settled.resumes, settled.templates)
                ELSE UseFallback(state, fallback, ErrorMessageOf(settled.error))
    IN [body EXCEPT !.isLoading = FALSE]

MaxLoads == 3

\* the default resume of user.json, whose phone is a number
UserDefault == Obj([name |-> Str("Ada"), basic_info |-> ValidBasicInfo])
FallbackChoices == {Arr(<<>>), Arr(<<UserDefault>>)}
\* what resumeApi.getAll and templateApi.getTemplates resolve with
ServerResumes == {Arr(<<MapResume(Record1)>>), Arr(<<MapResume(Record1), MapResume(Record2)>>)}
ServerTemplates == {Arr(<<Template1>>), Arr(<<Template1, Template2>>)}
\* what they reject with: the classified errors of the client, a validation
\* error of the response validator, the TypeError of a body without data
DataRejections ==
    {ApiErrorThrown("network", "Unable to connect to server"),
     ApiErrorThrown("network", "Request was cancelled"),
     ApiErrorThrown("server", "Server error occurred"),
     ApiErrorThrown("validation", "Invalid resume: name is required"),
     TypeErr("Cannot read properties of undefined (reading 'map')")}

NewLoad(kind, requestId, at) ==
    [kind |-> kind, requestId |-> requestId, pc |-> at, resumes |-> Undef,
     templates |-> Undef]

\* first render and first run of the effect
RdMount ==
    /\ rdPc = "unmounted"
    /\ \E fallbackResumes \in FallbackChoices, strict \in BOOLEAN :
          /\ rdFallback' = fallbackResumes
          /\ rdStrict' = strict
    /\ rdPc' = "mounted"
    /\ rdRef' = rdRef + 1
    /\ rdState' = StartLoading(rdState)
    /\ rdLoads' = <<NewLoad("effect", rdRef + 1, "health")>>
    /\ UNCHANGED resumeDataRest

\* StrictMode runs the effect a second time right after the first
RdEffectRerun ==
    /\ rdPc = "mounted"
    /\ rdStrict
    /\ rdLoads = <<NewLoad("effect", rdRef, "health")>>
    /\ rdRef' = rdRef + 1
    /\ rdState' = StartLoading(rdState)
    /\ rdLoads' = Append(rdLoads, NewLoad("effect", rdRef + 1, "health"))
    /\ UNCHANGED <<rdPc, rdFallback, rdStrict>>
    /\ UNCHANGED resumeDataRest

\* refetch(): after a save, or from the Retry button
RdRefetch ==
    /\ rdPc = "mounted"
    /\ Len(rdLoads) < MaxLoads
    /\ rdState' = StartLoading(rdState)
    /\ rdLoads' = Append(rdLoads, NewLoad("refetch", 0, "data"))
    /\ UNCHANGED <<rdPc, rdFallback, rdStrict, rdRef>>
    /\ UNCHANGED resumeDataRest

\* healthApi.check() of an effect load resolves
RdHealthSettles ==
    /\ \E k \in 1..Len(rdLoads), isHealthy \in BOOLEAN :
          /\ rdLoads[k].pc = "health"
          /\ rdState' = AfterHealthCheck(rdState, rdFallback, rdLoads[k].requestId, rdRef,
                                         isHealthy)
          /\ rdLoads' = [rdLoads EXCEPT ![k].pc =
                            IF rdLoads[k].requestId = rdRef /\ isHealthy THEN "data"
                            ELSE "done"]
    /\ UNCHANGED <<rdPc, rdFallback, rdStrict, rdRef>>
    /\ UNCHANGED resumeDataRest

\* the continuation of load k once Promise.all has settled
AfterPromiseAll(k, settled) ==
    /\ rdState' = IF rdLoads[k].kind = "effect"
                  THEN AfterInitializeData(rdState, rdFallback, rdLoads[k].requestId,
                                           rdRef, settled)
                  ELSE AfterRefetch(rdState, rdFallback, settled)
    /\ rdLoads' = [rdLoads EXCEPT ![k] = NewLoad(rdLoads[k].kind, rdLoads[k].requestId,
                                                 "done")]

\* fetchResumes() of load k settles
RdResumesSettle ==
    /\ \E k \in 1..Len(rdLoads) :
          /\ rdLoads[k].pc = "data"
          /\ rdLoads[k].resumes = Undef
          /\ \/ \E data \in ServerResumes :
                   LET resumeData == MapArr(normalizeResume, data) IN
                   IF rdLoads[k].templates = Undef
                   THEN /\ rdLoads' = [rdLoads EXCEPT ![k].resumes = resumeData]
                        /\ UNCHANGED rdState
                   ELSE AfterPromiseAll(k, [ok |-> TRUE, resumes |-> resumeData,
                                            templates |-> rdLoads[k].templates])
             \/ \E err \in DataRejections :
                   AfterPromiseAll(k, [ok |-> FALSE, error |-> err])
    /\ UNCHANGED <<rdPc, rdFallback, rdStrict, rdRef>>
    /\ UNCHANGED resumeDataRest

\* fetchTemplates() of load k settles
RdTemplatesSettle ==
    /\ \E k \in 1..Len(rdLoads) :
          /\ rdLoads[k].pc = "data"
          /\ rdLoads[k].templates = Undef
          /\ \/ \E templateData \in ServerTemplates :
                   IF rdLoads[k].resumes = Undef
                   THEN /\ rdLoads' = [rdLoads EXCEPT ![k].templates = templateData]
                        /\ UNCHANGED rdState
                   ELSE AfterPromiseAll(k, [ok |-> TRUE, resumes |-> rdLoads[k].resumes,
                                            templates |-> templateData])
             \/ \E err \in DataRejections :
                   AfterPromiseAll(k, [ok |-> FALSE, error |-> err])
    /\ UNCHANGED <<rdPc, rdFallback, rdStrict, rdRef>>
    /\ UNCHANGED resumeDataRest

ResumeDataNext ==
    \/ RdMount
    \/ RdEffectRerun
    \/ RdRefetch
    \/ RdHealthSettles
    \/ RdResumesSettle
    \/ RdTemplatesSettle

SpecResumeData == Init /\ [][ResumeDataNext]_vars

\* load k was pending and has now run its continuation to the end
Completes(k) == rdLoads[k].pc # "done" /\ rdLoads'[k].pc = "done"

\* C24: when a load completes after a later load has been started, resumes,
\* templates, isConnected, error and isLoading stay as they were, whether the
\* loads were started by the effect or by refetch.
C24_StaleLoadChangesNothing ==
    [][\A k \in 1..Len(rdLoads) :
          (Completes(k) /\ k < Len(rdLoads)) => rdState' = rdState]_vars

\* C25: whenever a load has finished (isLoading false) and the hook is not
\* connected, resumes are the normalized fallback resumes, templates are
\* FALLBACK_TEMPLATES and error is not null, whichever way the backend was
\* unavailable.
C25_FallbackWheneverDisconnected ==
    (rdPc = "mounted" /\ ~rdState.isLoading /\ ~rdState.isConnected) =>
        /\ rdState.resumes = MapArr(normalizeResume, rdFallback)
        /\ rdState.templates = FALLBACK_TEMPLATES
        /\ rdState.error # Null

\* every health check and every data request eventually settles
SpecResumeDataFair ==
    Init /\ [][ResumeDataNext]_vars
         /\ WF_vars(RdHealthSettles) /\ WF_vars(RdResumesSettle) /\ WF_vars(RdTemplatesSettle)

\* C29: once the hook is mounted, and given that every health check and every
\* data request settles, isLoading eventually becomes false, also when
\* StrictMode ran the effect twice and the first run was discarded as stale.
C29_LoadingEventuallyEnds ==
    (rdPc = "mounted") ~> ~rdState.isLoading

\* the effect ran twice, the first run was discarded and loading has ended
C29_Witness ==
    /\ rdRef = 2
    /\ Len(rdLoads) = 2
    /\ rdLoads[1].pc = "done"
    /\ rdLoads[2].pc = "done"
    /\ ~rdState.isLoading

(***************************************************************************)
(* hooks/useToast                                                          *)
(***************************************************************************)
\* the state outside useToast
toastRest == <<apiVars, boundaryVars, resumeDataVars, tagsVars, appVars>>

DEFAULT_TOAST_DURATION == 3000
MaxToasts == 3
MaxNow == 6002
MaxSkew == 2

\* array.filter(keep)
FilterSeq(keep(_), s) == SelectSeq(s, keep)

\* prev.filter((toast) => toast.id !== id)
WithoutId(prev, id) == LET keep(toast) == toast.id # id IN FilterSeq(keep, prev)

ToastCalls ==
    {[message |-> "Resume saved successfully!", isError |-> FALSE],
     [message |-> "Failed to save: Unknown error", isError |-> TRUE]}

\* showToast(message, isError)
ShowToast ==
    /\ tShown < MaxToasts
    /\ \E call \in ToastCalls :
          LET id == tNow IN
          /\ tToasts' = Append(tToasts, [id |-> id, message |-> call.message,
                                         isError |-> call.isError])
          /\ tTimers' = Append(tTimers, [id |-> id, due |-> tNow + DEFAULT_TOAST_DURATION])
    /\ tShown' = tShown + 1
    /\ UNCHANGED tNow
    /\ UNCHANGED toastRest

\* the close button of a visible toast: onDismiss(toast.id)
DismissToast ==
    /\ \E i \in 1..Len(tToasts) : tToasts' = WithoutId(tToasts, tToasts[i].id)
    /\ UNCHANGED <<tNow, tTimers, tShown>>
    /\ UNCHANGED toastRest

\* the setTimeout callback of a toast runs once its duration has elapsed
ToastTimerFires ==
    /\ Len(tTimers) > 0
    /\ tNow >= Head(tTimers).due
    /\ tToasts' = WithoutId(tToasts, Head(tTimers).id)
    /\ tTimers' = Tail(tTimers)
    /\ UNCHANGED <<tNow, tShown>>
    /\ UNCHANGED toastRest

\* time passes: a millisecond (a few in a row), or the duration of a toast
TimePasses ==
    /\ \E d \in {1, DEFAULT_TOAST_DURATION} :
          /\ tNow + d <= MaxNow
          /\ d = 1 => tNow % DEFAULT_TOAST_DURATION < MaxSkew
          /\ tNow' = tNow + d
    /\ UNCHANGED <<tToasts, tTimers, tShown>>
    /\ UNCHANGED toastRest

ToastNext ==
    \/ ShowToast
    \/ DismissToast
    \/ ToastTimerFires
    \/ TimePasses

SpecToast == Init /\ [][ToastNext]_vars

\* C26: the ids of the visible toasts are pairwise different, also for toasts
\* shown within the same millisecond, and a dismissal or the expiry of a timer
\* removes one toast at most and leaves the others as they were.
C26_OnlyTheAddressedToastIsRemoved ==
    /\ [](\A i, j \in 1..Len(tToasts) : i # j => tToasts[i].id # tToasts[j].id)
    /\ [][Len(tToasts') >= Len(tToasts) - 1]_vars

(***************************************************************************)
(* components/ui/TagsWidget                                                *)
(***************************************************************************)
\* the state outside TagsWidget
tagsRest == <<apiVars, boundaryVars, resumeDataVars, toastVars, appVars>>

\* value.includes(tag)
IncludesTag(value, tag) == \E i \in 1..Len(value) : value[i] = tag

\* value.filter((_, i) => i !== index), index counted from zero
RECURSIVE FilterIndex(_, _, _)
FilterIndex(value, index, i) ==
    IF Len(value) = 0 THEN <<>>
    ELSE (IF i # index THEN <<Head(value)>> ELSE <<>>)
            \o FilterIndex(Tail(value), index, i + 1)

\* addTag without the includes test
addTag_AllowsDuplicates(value, inputValue, maxTags) ==
    LET trimmedValue == Trim(inputValue) IN
    IF Len(trimmedValue) > 0 /\ (maxTags = Undef \/ Len(value) < maxTags.v)
    THEN [called |-> TRUE, tags |-> Append(value, trimmedValue)]
    ELSE [called |-> FALSE]

\* the onChange call of addTag, if it makes one
addTag(value, inputValue, maxTags) ==
    LET trimmedValue == Trim(inputValue) IN
    IF Len(trimmedValue) > 0 /\ ~IncludesTag(value, trimmedValue)
       /\ (maxTags = Undef \/ Len(value) < maxTags.v)
    THEN [called |-> TRUE, tags |-> Append(value, trimmedValue)]
    ELSE [called |-> FALSE]

removeTag(value, index) == [called |-> TRUE, tags |-> FilterIndex(value, index, 0)]

TagInputs == {"", " ", "tla", " tla ", "react", "a b", "\treact"}
StartTags == {"tla", "react", " tla", ""}
MaxTagsValues == {Undef, Num(0), Num(2), Num(3)}
\* lists without duplicates, of at most two entries
StartValues ==
    {<<>>} \cup {<<a>> : a \in StartTags}
           \cup {<<p[1], p[2]>> : p \in {q \in StartTags \X StartTags : q[1] # q[2]}}

\* first render with the props value and maxTags
TwMount ==
    /\ twLast.type = "none"
    /\ \E value \in StartValues, maxTags \in MaxTagsValues :
          /\ maxTags # Undef => Len(value) <= maxTags.v
          /\ twValue' = value
          /\ twStart' = value
          /\ twMaxTags' = maxTags
    /\ twLast' = [type |-> "mount"]
    /\ UNCHANGED <<twInput, twOnChange>>
    /\ UNCHANGED tagsRest

\* handleInputChange
TwType ==
    /\ twLast.type # "none"
    /\ \E text \in TagInputs : twInput' = text
    /\ twLast' = [type |-> "type"]
    /\ twOnChange' = [called |-> FALSE]
    /\ UNCHANGED <<twMaxTags, twStart, twValue>>
    /\ UNCHANGED tagsRest

\* handleKeyDown with Enter: addTag(), the parent re-renders with the new list
TwAddTag ==
    /\ twLast.type # "none"
    /\ twOnChange' = addTag(twValue, twInput, twMaxTags)
    /\ twValue' = IF twOnChange'.called THEN twOnChange'.tags ELSE twValue
    /\ twInput' = ""
    /\ twLast' = [type |-> "addTag", value |-> twValue, inputValue |-> twInput]
    /\ UNCHANGED <<twMaxTags, twStart>>
    /\ UNCHANGED tagsRest

\* the remove button of the tag at index: removeTag(index)
TwRemoveTag ==
    /\ twLast.type # "none"
    /\ \E index \in 0..(Len(twValue) - 1) :
          /\ twOnChange' = removeTag(twValue, index)
          /\ twLast' = [type |-> "removeTag", value |-> twValue, index |-> index]
    /\ twValue' = twOnChange'.tags
    /\ UNCHANGED <<twMaxTags, twStart, twInput>>
    /\ UNCHANGED tagsRest

TagsNext ==
    \/ TwMount
    \/ TwType
    \/ TwAddTag
    \/ TwRemoveTag

SpecTags == Init /\ [][TagsNext]_vars

NoDuplicates(tags) == \A i, j \in 1..Len(tags) : i # j => tags[i] # tags[j]
TrimmedNonEmpty(tag) == Len(tag) > 0 /\ Trim(tag) = tag
WithinMax(tags) == twMaxTags # Undef => Len(tags) <= twMaxTags.v

\* addTag cleared the input; removeTag handed on the list without the entry
\* at its index, the others in their order
HandlersActAsStated ==
    /\ twLast.type = "addTag" => twInput = ""
    /\ twLast.type = "removeTag" =>
          /\ Len(twOnChange.tags) = Len(twLast.value) - 1
          /\ \A i \in 1..Len(twOnChange.tags) :
                twOnChange.tags[i] = twLast.value[IF i <= twLast.index THEN i ELSE i + 1]

\* C27 (as stated): from a start list without duplicates and within maxTags,
\* every list handed to onChange has no duplicates, only trimmed non-empty
\* tags and at most maxTags entries; addTag clears the input; removeTag removes
\* exactly the entry at its index.
C27_OnChangeListsAreClean ==
    /\ twOnChange.called =>
          /\ NoDuplicates(twOnChange.tags)
          /\ \A i \in 1..Len(twOnChange.tags) : TrimmedNonEmpty(twOnChange.tags[i])
          /\ WithinMax(twOnChange.tags)
    /\ HandlersActAsStated

\* C27 (amended): as stated, except that only the tags addTag appended are
\* trimmed and non-empty: an entry of the start list is handed on as it is.
C27_AddedTagsAreClean ==
    /\ twOnChange.called =>
          /\ NoDuplicates(twOnChange.tags)
          /\ \A i \in 1..Len(twOnChange.tags) :
                \/ TrimmedNonEmpty(twOnChange.tags[i])
                \/ IncludesTag(twStart, twOnChange.tags[i])
          /\ WithinMax(twOnChange.tags)
    /\ HandlersActAsStated

\* Enter on a tag that is already in a full list: nothing added, input cleared
C27_Witness ==
    /\ twLast.type = "addTag"
    /\ twLast.inputValue = " tla "
    /\ twLast.value = <<"react", "tla">>
    /\ twMaxTags = Num(2)
    /\ ~twOnChange.called
    /\ twInput = ""

(***************************************************************************)
(* App (ResumeApp), hooks/useResumeSelection, hooks/useResumeMetadata and  *)
(* the submit handlers of pages/ResumeEditPage                             *)
(***************************************************************************)
\* the state outside ResumeApp
appRest == <<apiVars, boundaryVars, resumeDataVars, toastVars, tagsVars>>

MaxSaves == 2

\* a record of GET /resume with the given keywords property
KeywordRecord(keywords) ==
    IF keywords = Undef THEN Record1 ELSE With(Record1, "keywords", keywords)

\* keywords properties of the records the server lists
ListedKeywords == {Arr(<<Str("tla")>>), Str("tla"), Arr(<<Num(7)>>)}

\* bodies of GET /resume
ResumeListBodies ==
    {Obj([data |-> Arr(<<KeywordRecord(k)>>)]) : k \in ListedKeywords}
        \cup {Obj([data |-> Arr(<<NamelessRecord>>)])}

\* the formData the form submits
FormData == Obj([name |-> Str("Name in the form"), education |-> Arr(<<ValidEducation>>)])
NameInputs == {"Resume A"}

\* resumes.find(r => r._id === id)
FindResume(resumes, id) ==
    IF \E i \in 1..Len(resumes.v) : Get(resumes.v[i], "_id") = Str(id)
    THEN resumes.v[CHOOSE i \in 1..Len(resumes.v) :
                      /\ Get(resumes.v[i], "_id") = Str(id)
                      /\ \A j \in 1..(i - 1) : Get(resumes.v[j], "_id") # Str(id)]
    ELSE Undef

\* initializeFromResume keeping whatever keywords it is given
initializeFromResume(resumeKeywords, name) ==
    [keywords |-> OrElse(resumeKeywords, Arr(<<>>)),
     resumeName |-> OrElse(name, Str("")).v]

\* { ...data, name: resumeName, keywords }
SavePayload(data, resumeName, keywords) ==
    With(With(data, "name", Str(resumeName)), "keywords", keywords)

\* selectedResumeId && !saveAsNew ? update : create
SaveMethod(selectedResumeId, saveAsNew) ==
    IF Len(selectedResumeId) > 0 /\ ~saveAsNew THEN "update" ELSE "create"

\* the edit page is on screen: not loading, editing, and its widgets render
\* (TagsWidget maps over keywords, which throws unless it is an array); what
\* TagsWidget itself hands to onKeywordsChange is the TagsWidget section's
EditPageShown == ~apLoading /\ apIsEditing /\ apKeywords.t = "array"

\* a load of useResumeData ends: resumes are the validated list of getAll,
\* or the fallback resume when the call was rejected
ApLoadEnds ==
    /\ apLoading
    /\ \E body \in ResumeListBodies :
          LET settled == getAll(Resolved(body, 200)) IN
          apResumes' = IF settled.ok THEN MapArr(normalizeResume, settled.data)
                       ELSE MapArr(normalizeResume, Arr(<<UserDefault>>))
    /\ apLoading' = FALSE
    /\ UNCHANGED <<apSelectedId, apKeywords, apResumeName, apIsEditing, apIsSaving,
                   apSaveAsNew, apSaves>>
    /\ UNCHANGED appRest

\* handleSelectResume(id), from the list of the selection page or the select
\* of the edit page
ApSelectResume ==
    /\ ~apLoading
    /\ \E i \in 1..Len(apResumes.v) :
          LET id == Get(apResumes.v[i], "_id")
              resume == FindResume(apResumes, id.v)
              meta == initializeFromResume(Get(resume, "keywords"), Get(resume, "name"))
          IN /\ id.t = "string"
             /\ Len(id.v) > 0
             /\ apSelectedId' = id.v
             /\ apKeywords' = meta.keywords
             /\ apResumeName' = meta.resumeName
    /\ apIsEditing' = TRUE
    /\ apSaveAsNew' = FALSE
    /\ UNCHANGED <<apLoading, apResumes, apIsSaving, apSaves>>
    /\ UNCHANGED appRest

\* handleCreateNew, and onResetSelection of the edit page
ApCreateNew ==
    /\ ~apLoading
    /\ apSelectedId' = ""
    /\ apKeywords' = initializeFromResume(Arr(<<>>), Str("")).keywords
    /\ apResumeName' = initializeFromResume(Arr(<<>>), Str("")).resumeName
    /\ apIsEditing' = TRUE
    /\ apSaveAsNew' = FALSE
    /\ UNCHANGED <<apLoading, apResumes, apIsSaving, apSaves>>
    /\ UNCHANGED appRest

\* onNameChange -> setResumeName
ApSetResumeName ==
    /\ EditPageShown
    /\ \E name \in NameInputs : apResumeName' = name
    /\ UNCHANGED <<apLoading, apResumes, apSelectedId, apKeywords, apIsEditing, apIsSaving,
                   apSaveAsNew, apSaves>>
    /\ UNCHANGED appRest

\* the Save as New Resume button and its Cancel button
ApToggleSaveAsNew ==
    /\ EditPageShown
    /\ Len(apSelectedId) > 0
    /\ apSaveAsNew' = ~apSaveAsNew
    /\ UNCHANGED <<apLoading, apResumes, apSelectedId, apKeywords, apResumeName,
                   apIsEditing, apIsSaving, apSaves>>
    /\ UNCHANGED appRest

\* the call handleSubmit makes, with the state it read
NewSave(selectedResumeId, saveAsNew, resumeName, keywords) ==
    [method |-> SaveMethod(selectedResumeId, saveAsNew),
     id |-> IF SaveMethod(selectedResumeId, saveAsNew) = "update" THEN selectedResumeId
            ELSE "",
     payload |-> SavePayload(FormData, resumeName, keywords),
     selectedResumeId |-> selectedResumeId, saveAsNew |-> saveAsNew,
     resumeName |-> resumeName, keywords |-> keywords,
     pc |-> "pending", toast |-> "", refetched |-> FALSE]

\* the form is submitted, by the Save Resume button (never disabled) or by
\* Confirm Save as New: ResumeEditPage.handleSubmit -> ResumeApp.handleSubmit
\* up to its await
ApSubmit ==
    /\ EditPageShown
    /\ Len(apSaves) < MaxSaves
    /\ apIsSaving' = TRUE
    /\ apSaves' = Append(apSaves, NewSave(apSelectedId, apSaveAsNew, apResumeName,
                                          apKeywords))
    /\ UNCHANGED <<apLoading, apResumes, apSelectedId, apKeywords, apResumeName,
                   apIsEditing, apSaveAsNew>>
    /\ UNCHANGED appRest

\* what a rejected save is rejected with
SaveRejections == {PlainError("Network error"), Primitive}

\* err instanceof Error ? err.message : 'Unknown error'
SaveFailureMessage(err) == IF InstanceOfError(err) THEN err.message ELSE "Unknown error"

\* the awaited resumeApi call of save k settles: the rest of handleSubmit
\* runs (toast, refetch, finally), then the rest of the page's handleSubmit
ApSaveSettles ==
    /\ \E k \in 1..Len(apSaves), outcome \in {Returned} \cup SaveRejections :
          LET ok == outcome = Returned IN
          /\ apSaves[k].pc = "pending"
          /\ ok => ~RequestGate(apSaves[k].method, apSaves[k].payload).threw
          /\ apSaves' = [apSaves EXCEPT ![k] =
                [@ EXCEPT !.pc = IF ok THEN "resolved" ELSE "rejected",
                          !.toast = IF ok THEN "Resume saved successfully!"
                                    ELSE "Failed to save: " \o SaveFailureMessage(outcome),
                          !.refetched = ok]]
          /\ apLoading' = (apLoading \/ ok)
    /\ apIsSaving' = FALSE
    /\ apSaveAsNew' = FALSE
    /\ UNCHANGED <<apResumes, apSelectedId, apKeywords, apResumeName, apIsEditing>>
    /\ UNCHANGED appRest

AppNext ==
    \/ ApLoadEnds
    \/ ApSelectResume
    \/ ApCreateNew
    \/ ApSetResumeName
    \/ ApToggleSaveAsNew
    \/ ApSubmit
    \/ ApSaveSettles

SpecApp == Init /\ [][AppNext]_vars

\* C28: every save called update when a resume was selected and saveAsNew was
\* false and create otherwise, with the name and keywords of the metadata
\* state; isSaving is true exactly while a save is in flight, also when two
\* submits overlap.
C28_IsSavingWhileAnySaveInFlight ==
    /\ \A k \in 1..Len(apSaves) :
          /\ apSaves[k].method =
                (IF apSaves[k].selectedResumeId # "" /\ ~apSaves[k].saveAsNew
                 THEN "update" ELSE "create")
          /\ apSaves[k].method = "update" => apSaves[k].id = apSaves[k].selectedResumeId
          /\ Get(apSaves[k].payload, "name") = Str(apSaves[k].resumeName)
          /\ Get(apSaves[k].payload, "keywords") = apSaves[k].keywords
    /\ apIsSaving <=> \E k \in 1..Len(apSaves) : apSaves[k].pc = "pending"

\* C30: the keywords held by useResumeMetadata, handed to TagsWidget and put
\* into the next save payload, are an array of strings, whichever validated
\* resume of getAll was selected.
C30_KeywordsAreAnArrayOfStrings ==
    /\ apKeywords.t = "array"
    /\ \A i \in 1..Len(apKeywords.v) : apKeywords.v[i].t = "string"

====
